---- MODULE Spec2Model ----
(***************************************************************************)
(* Model of the asynchronous batch-orchestration core of zgnb:             *)
(*   - TranscriptionService.batch_transcribe / transcribe_audio            *)
(*     (src/utils/transcription_service.py),                               *)
(*   - WorkerThread.run / cancel (src/utils/worker_thread.py),             *)
(*   - the start / cancel / finished handlers of a lane                    *)
(*     (src/ui_components/transcription_tab.py).                           *)
(*                                                                         *)
(* Spec      one WorkerThread running batch_transcribe on a work list,     *)
(*           transcribe_audio called with its default arguments (the       *)
(*           waiting time and interval are scaled down).                   *)
(* SpecItem  the same program on a one-item list, with the arguments of    *)
(*           transcribe_audio (max_wait_time, wait_interval, max_retries)  *)
(*           drawn from bounded sets.                                      *)
(* SpecLane  one lane of the UI (transcription or upload tab) with its     *)
(*           work list and the worker threads it creates; the task         *)
(*           function of a worker is reduced to its outcome.               *)
(* SpecStart the lane next to batch_transcribe called on an empty list.    *)
(* SpecSplit AudioProcessor.process_video / split_audio on one asset       *)
(*           (src/utils/audio_processor.py), the asset length and the      *)
(*           segment length drawn from bounded sets.                       *)
(* SpecDir   AudioProcessor.process_directory calling process_video on     *)
(*           each video it found.                                          *)
(* SpecUpload TosUploader.batch_upload / upload_file                       *)
(*           (src/utils/tos_uploader.py) on a list of the upload tab.      *)
(* SpecProgress one call of file_progress of batch_transcribe, computed    *)
(*           in binary64 arithmetic as Python computes it.                 *)
(***************************************************************************)
EXTENDS Integers, Sequences, FiniteSets, TLC

(* ------------------------------ bounds -------------------------------- *)
MaxFiles == 3          \* longest work list
BatchMaxWait == 2      \* max_wait_time used by the batch (1800 s, scaled)
BatchInterval == 1     \* wait_interval used by the batch (5 s, scaled)
MaxWaitBound == 3      \* largest max_wait_time drawn in SpecItem
MaxIntervalBound == 2  \* largest wait_interval drawn in SpecItem
MaxRetriesBound == 3   \* largest max_retries drawn in SpecItem
NumWorkers == 3        \* worker threads a lane may create
MaxTabList == 1        \* longest list kept by a tab (URLs parsed, files added)
MaxDuration == 5       \* longest asset (in time units)
MaxBatch == 9          \* largest batch whose file_progress is computed
MaxVideos == 2         \* most videos found by process_directory
MaxUploads == 3        \* longest list of batch_upload
MaxSegment == 3        \* largest segment_duration (same unit; 0 = no split)
MaxBytes == 4          \* largest file of an upload (in bytes)
MaxCalls == 4          \* most calls of the transfer listener during one upload

(* -------------------------- program constants ------------------------- *)
update_interval == 2   \* ProgressTracker.update_interval, in seconds
DEFAULT_MAX_RETRIES == 3
max_query_retries == 3

None == "None"

(* ------------------------------ helpers ------------------------------- *)
Min(a, b) == IF a < b THEN a ELSE b

\* a URL is <<directory, file name>>; os.path.basename keeps the file name
\* (two of the URLs share their file name)
Urls == {<<"d1", "a">>, <<"d2", "a">>, <<"d1", "b">>}
basename(url) == url[2]

\* os.path.join(output_dir, os.path.splitext(file_name)[0]) + extension
output_path(name, ext) == <<name, ext>>

\* retry_delay = 2 ** retry_count (mutant: the first retry waits 1)
retry_delay_late(rc) == 2 ^ (rc - 1)
retry_delay(rc) == 2 ^ rc

\* "if retry_count > 0: ... time.sleep(retry_delay)": the delays slept before
\* the attempt made with retry_count = rc (mutant: also before the first one)
backoff_always(rc) == <<retry_delay(rc)>>
backoff(rc) == IF rc > 0 THEN <<retry_delay(rc)>> ELSE <<>>

\* "while retry_count < max_retries and not task_id" (mutant: one try too many)
submit_loop_continues_le(rc, mr, tid) == rc <= mr /\ ~tid
submit_loop_continues(rc, mr, tid) == rc < mr /\ ~tid

\* "while time.time() - start_time < max_wait_time" (mutants: a grace
\* interval; a loop without a time limit)
poll_loop_continues_grace(el, mw, wi) == el <= mw + wi
poll_loop_continues_forever(el, mw, wi) == TRUE
poll_loop_continues(el, mw, wi) == el < mw

\* expected_queries = max_wait_time // wait_interval
expected_queries(mw, wi) == mw \div wi

\* progress = min(95, 5 + int(90 * query_count / expected_queries))
\* (mutant: without the cap)
poll_progress_uncapped(qc, eq) == 5 + ((90 * qc) \div eq)
poll_progress(qc, eq) == Min(95, 5 + ((90 * qc) \div eq))

(* ------------------------------ file_progress ------------------------- *)
\* Python floats are IEEE-754 binary64 numbers. A float that is not zero is
\* modelled as [m, e] of value m * 2^(e - 52), with 2^52 <= m < 2^53; zero has
\* m = 0. Numbers of that size are written as sequences of limbs in base
\* 2^15, most significant first, the empty sequence being 0. Every operation
\* computes the exact result and rounds it to nearest, ties to even.
Precision == 53
LimbBits == 15
Base == 2 ^ LimbBits
FloatZero == [m |-> <<>>, e |-> 0]
ZeroLimbs(k) == [j \in 1..k |-> 0]

\* without the leading zero limbs
Strip(v) ==
  LET nz == {k \in 1..Len(v) : v[k] # 0}
  IN IF nz = {} THEN <<>>
     ELSE SubSeq(v, CHOOSE k \in nz : \A j \in nz : k <= j, Len(v))

\* quotient and remainder of v by a small integer d, from limb k on
RECURSIVE BigDiv(_, _, _, _, _)
BigDiv(v, k, r, d, acc) ==
  IF k > Len(v) THEN [q |-> Strip(acc), r |-> r]
  ELSE LET t == r * Base + v[k]
       IN BigDiv(v, k + 1, t % d, d, Append(acc, t \div d))

\* v times a small integer k, from limb j down, with the carry c
RECURSIVE BigMul(_, _, _, _, _)
BigMul(v, j, k, c, acc) ==
  IF j = 0 THEN Strip(<<c>> \o acc)
  ELSE LET t == v[j] * k + c
       IN BigMul(v, j - 1, k, t \div Base, <<t % Base>> \o acc)

\* a + b for two sequences of one length, from limb j down, with the carry c
RECURSIVE BigAddLimbs(_, _, _, _, _)
BigAddLimbs(a, b, j, c, acc) ==
  IF j = 0 THEN Strip(<<c>> \o acc)
  ELSE LET t == a[j] + b[j] + c
       IN BigAddLimbs(a, b, j - 1, t \div Base, <<t % Base>> \o acc)

BigAdd(a, b) ==
  LET n == IF Len(a) >= Len(b) THEN Len(a) ELSE Len(b)
  IN BigAddLimbs(ZeroLimbs(n - Len(a)) \o a, ZeroLimbs(n - Len(b)) \o b, n, 0, <<>>)

\* the number of binary digits of v
BitLen(v) ==
  IF v = <<>> THEN 0
  ELSE (Len(v) - 1) * LimbBits +
       (CHOOSE k \in 1..LimbBits : 2 ^ (k - 1) <= v[1] /\ v[1] < 2 ^ k)

\* v * 2^s
ShiftLeft(v, s) ==
  BigMul(v \o ZeroLimbs(s \div LimbBits), Len(v) + (s \div LimbBits),
         2 ^ (s % LimbBits), 0, <<>>)

\* floor(v / 2^s), and whether a bit that is 1 was dropped
ShiftRight(v, s) ==
  LET keep == Len(v) - (s \div LimbBits)
      high == IF keep <= 0 THEN <<>> ELSE SubSeq(v, 1, keep)
      qr == BigDiv(high, 1, 0, 2 ^ (s % LimbBits), <<>>)
  IN [q |-> qr.q,
      r |-> qr.r # 0 \/ \E k \in 1..Len(v) : k > keep /\ v[k] # 0]

\* v is odd
Odd(v) == v # <<>> /\ v[Len(v)] % 2 = 1

\* the float nearest to v * 2^scale, v followed by something more iff sticky
RoundFloat(v, scale, sticky) ==
  IF v = <<>> THEN FloatZero
  ELSE LET len == BitLen(v)
       IN IF len <= Precision
            THEN [m |-> ShiftLeft(v, Precision - len), e |-> scale + len - 1]
            ELSE LET h == ShiftRight(v, len - Precision - 1)
                     keep == ShiftRight(h.q, 1).q
                     up == Odd(h.q) /\ (sticky \/ h.r \/ Odd(keep))
                     m == IF up THEN BigAdd(keep, <<1>>) ELSE keep
                 IN IF BitLen(m) > Precision
                      THEN [m |-> ShiftRight(m, 1).q, e |-> scale + len]
                      ELSE [m |-> m, e |-> scale + len - 1]

\* float(a) for an integer 0 <= a < 2^15
IntToFloat(a) == RoundFloat(Strip(<<a>>), 0, FALSE)

\* x / d for a float x and an integer 0 < d < 2^15
FloatDivInt(x, d) ==
  LET qr == BigDiv(x.m \o ZeroLimbs(2), 1, 0, d, <<>>)
  IN RoundFloat(qr.q, x.e - (Precision - 1) - 2 * LimbBits, qr.r # 0)

\* k * x for an integer 0 <= k < 2^15 and a float x
IntMulFloat(k, x) ==
  RoundFloat(BigMul(x.m, Len(x.m), k, 0, <<>>), x.e - (Precision - 1), FALSE)

\* x + y for floats that are not negative
FloatAdd(x, y) ==
  IF x.m = <<>> THEN y
  ELSE IF y.m = <<>> THEN x
  ELSE LET hi == IF x.e >= y.e THEN x ELSE y
           lo == IF x.e >= y.e THEN y ELSE x
       IN RoundFloat(BigAdd(ShiftLeft(hi.m, hi.e - lo.e), lo.m),
                     lo.e - (Precision - 1), FALSE)

\* int(x) for a float 0 <= x < 2^15
FloatToInt(x) ==
  IF x.m = <<>> \/ x.e < 0 THEN 0
  ELSE LET q == ShiftRight(x.m, (Precision - 1) - x.e).q
       IN IF q = <<>> THEN 0 ELSE q[1]

\* file_weight = 100 / total_files
file_weight(n) == FloatDivInt(IntToFloat(100), n)

\* overall_progress = int(i * file_weight + percent * file_weight / 100)
file_progress(idx, percent, n) ==
  FloatToInt(FloatAdd(IntMulFloat(idx, file_weight(n)),
                      FloatDivInt(IntMulFloat(percent, file_weight(n)), 100)))

\* (mutant: the local percent of the item is published as it is)
overall_progress_unweighted(idx, percent, n) == percent

\* file_progress in exact arithmetic, as the events of the batch models carry
\* it: the quotient is the value of the float expression for every n <= 8
\* (ExactUpTo8), and the work lists are shorter
overall_progress(idx, percent, n) == ((idx * 100) + percent) \div n

\* payloads a completed query may carry: {} is falsy in Python
Payloads == {"empty", "nodur", "full"}
truthy(p) == p # None /\ p # "empty"

\* names of the text files the batch can write
Names == {basename(u) : u \in Urls}

\* the three branches on status_code of a polling tick: '20000000',
\* ['20000001', '20000002'], else ("neterr": query_task caught a network
\* error and returned (None, "超时"), which is no known code)
\* (mutant: a failure code is taken for in-progress)
status_class_lenient(o) ==
  IF o \in Payloads \cup {"bad"} THEN "complete"
  ELSE IF o \in {"inprogress", "failed"} THEN "in_progress"
  ELSE "other"
status_class(o) ==
  IF o \in Payloads \cup {"bad"} THEN "complete"
  ELSE IF o = "inprogress" THEN "in_progress"
  ELSE "other"

\* segment_count = int(duration / segment_duration)
\*                 + (1 if duration % segment_duration > 0 else 0)
\* (mutant: the partial last segment is not counted)
segment_count_floor(d, sd) == d \div sd
segment_count_of(d, sd) == (d \div sd) + (IF d % sd > 0 THEN 1 ELSE 0)

\* start_time = i * self.segment_duration
segment_start(k, sd) == k * sd

\* "-ss start -t segment_duration" on an asset of length d: the window cut
cut_window(start, sd, d) == [start |-> start, end |-> Min(start + sd, d)]

VARIABLES
  (* one WorkerThread running batch_transcribe *)
  pc,                \* position of the worker thread
  file_urls,         \* the work list
  max_wait_time, wait_interval, max_retries,   \* arguments of transcribe_audio
  i,                 \* loop index of batch_transcribe
  files,             \* result["files"]
  summary_file, summary_error, ret,            \* rest of the batch result
  retry_count, task_id,                        \* submission loop
  elapsed, query_retry_count, query_count, result,   \* polling loop
  cancelled,         \* WorkerThread.cancelled
  finished,          \* task_finished events emitted by the worker
  emitted,           \* progress events of the latest emitting step
  (* history of the item in flight / last processed *)
  submit_log,        \* outcomes of the submit_task calls
  sleeps,            \* backoff delays slept
  query_calls,       \* number of query_task calls
  only_inprogress,   \* every query so far reported in-progress
  item_outcome,      \* how transcribe_audio ended for the item
  summary_runs,      \* number of _generate_summary calls
  cancel_pc,         \* when cancel() came: in_task, before_check (of run), after_run
  last_query,        \* what the latest query_task call of the item met
  exc_run,           \* number of polling ticks in a row that raised
  disk,              \* text file of each name: the item whose transcript it holds
  summary_sections,  \* the sections written to all_transcripts.txt
  (* one lane *)
  is_running, start_btn, cancel_btn, worker, threads, sigq,
  lane_kind,         \* "transcription" or "upload"
  tab_list,          \* length of the tab's work list (file_urls / file_list)
  worker_items,      \* length of the list given to the latest worker created
  start_result,      \* how the latest start action ended: rejected or started
  (* AudioProcessor.process_video on one asset *)
  sp_pc,             \* position in process_video / split_audio
  asset_duration,    \* true length of the asset
  segment_duration,  \* AudioProcessor.segment_duration
  video_duration,    \* result["video"]["duration"] (0: the probe failed)
  split_how,         \* the branch split_audio took
  segment_count,     \* segment_count of split_audio (0: not computed)
  seg_i,             \* loop index of split_audio
  segments,          \* files returned by split_audio, with the window each holds
  segment_info,      \* result["segment_info"] (empty until it is built)
  (* AudioProcessor.process_directory *)
  dir_pc,            \* position in process_directory
  total_videos,      \* len(video_files)
  vid_i,             \* loop index of process_directory
  dir_results,       \* results
  dir_summary,       \* the extraction summary file was written
  (* TosUploader.batch_upload *)
  up_pc,             \* position in batch_upload
  file_paths,        \* the list of local paths
  up_i,              \* loop index of batch_upload
  up_results,        \* results: path -> URL or None
  up_emitted,        \* progress values of the latest emitting step
  (* one call of file_progress *)
  fp_n, fp_i, fp_p,  \* total_files, i and percent of the call
  fp_out,            \* the overall progress it published (-1: not called yet)
  (* SplitAudioTab.split_audio_task run by a WorkerThread *)
  st_pc,             \* position in split_audio_task / WorkerThread.run
  st_duration,       \* duration, as get_video_duration returned it
  st_cancelled,      \* WorkerThread.cancelled
  st_finished,       \* task_finished events of the worker (success flags)
  (* ProgressTracker of one upload_file call *)
  tk_pc,             \* position in put_object_from_file
  total_bytes,       \* file_size
  consumed_bytes,    \* bytes the SDK reported last
  tk_now,            \* datetime.now(), in seconds since the tracker was built
  tk_calls,          \* calls of track_progress so far
  last_progress,     \* ProgressTracker.last_progress
  last_update_time,  \* ProgressTracker.last_update_time
  last_bytes,        \* ProgressTracker.last_bytes
  tk_events          \* progress_callback calls: progress and the time of the call

batch_vars == <<pc, file_urls, max_wait_time, wait_interval, max_retries, i,
                files, summary_file, summary_error, ret, retry_count, task_id,
                elapsed, query_retry_count, query_count, result, cancelled,
                finished, emitted, submit_log, sleeps, query_calls,
                only_inprogress, item_outcome, summary_runs, cancel_pc,
                last_query, exc_run, disk, summary_sections>>
lane_vars == <<is_running, start_btn, cancel_btn, worker, threads, sigq,
               lane_kind, tab_list, worker_items, start_result>>
split_vars == <<sp_pc, asset_duration, segment_duration, video_duration,
                split_how, segment_count, seg_i, segments, segment_info>>
dir_vars == <<dir_pc, total_videos, vid_i, dir_results, dir_summary>>
up_vars == <<up_pc, file_paths, up_i, up_results, up_emitted>>
fp_vars == <<fp_n, fp_i, fp_p, fp_out>>
st_vars == <<st_pc, st_duration, st_cancelled, st_finished>>
tk_vars == <<tk_pc, total_bytes, consumed_bytes, tk_now, tk_calls, last_progress,
             last_update_time, last_bytes, tk_events>>
aux_vars == <<dir_vars, up_vars, fp_vars, st_vars, tk_vars>>
vars == <<batch_vars, lane_vars, split_vars, aux_vars>>

total_files == Len(file_urls)

(* --------------------------- progress events -------------------------- *)
\* progress_callback(int(i * file_weight), ...) of the batch itself
BatchEv(idx) ==
  [item |-> idx, local |-> -1, overall |-> overall_progress(idx, 0, total_files)]

\* file_progress(percent, message)
FileEv(idx, percent) ==
  [item |-> idx, local |-> percent,
   overall |-> overall_progress(idx, percent, total_files)]

\* progress_callback(100, "批量转录完成")
FinalEv == [item |-> total_files, local |-> -1, overall |-> 100]

(* ------------------------------ initial state ------------------------- *)
\* sequences over S of length 0..k
RECURSIVE SeqsUpTo(_, _)
SeqsUpTo(S, k) ==
  IF k = 0 THEN {<<>>}
  ELSE LET shorter == SeqsUpTo(S, k - 1)
       IN shorter \cup {Append(s, x) : s \in {t \in shorter : Len(t) = k - 1}, x \in S}

\* the work lists: up to MaxFiles URLs, no URL listed twice
WorkLists ==
  {s \in SeqsUpTo(Urls, MaxFiles) : \A a, b \in 1..Len(s) : a # b => s[a] # s[b]}

\* WorkerThread.__init__ and the locals of batch_transcribe before its first step
InitWorker ==
  /\ pc = "begin"
  /\ i = 0
  /\ files = <<>>
  /\ summary_file = None
  /\ summary_error = None
  /\ ret = [status |-> None]
  /\ retry_count = 0
  /\ task_id = FALSE
  /\ elapsed = 0
  /\ query_retry_count = 0
  /\ query_count = 0
  /\ result = None
  /\ cancelled = FALSE
  /\ finished = <<>>
  /\ emitted = <<>>
  /\ submit_log = <<>>
  /\ sleeps = <<>>
  /\ query_calls = 0
  /\ only_inprogress = TRUE
  /\ item_outcome = "none"
  /\ summary_runs = 0
  /\ cancel_pc = "none"
  /\ last_query = "none"
  /\ exc_run = 0
  /\ disk = [nm \in Names |-> 0]
  /\ summary_sections = <<>>

\* __init__ of a tab: no worker, not running, only the start button enabled,
\* an empty work list
InitTab(kind) ==
  /\ lane_kind = kind
  /\ is_running = FALSE
  /\ start_btn = TRUE
  /\ cancel_btn = FALSE
  /\ worker = 0
  /\ threads = [w \in 1..NumWorkers |->
                  [st |-> "unborn", cancelled |-> FALSE, emits |-> 0]]
  /\ sigq = <<>>
  /\ tab_list = 0
  /\ worker_items = 0
  /\ start_result = "none"

\* TranscriptionTab.__init__
InitLane == InitTab("transcription")

\* AudioProcessor.__init__ and the locals of process_video before its first step
InitProcessor ==
  /\ sp_pc = "begin"
  /\ video_duration = 0
  /\ split_how = "none"
  /\ segment_count = 0
  /\ seg_i = 0
  /\ segments = <<>>
  /\ segment_info = <<>>

\* no asset is processed: the processor keeps its initial state
InitNoAsset ==
  /\ asset_duration = 1
  /\ segment_duration = 1
  /\ InitProcessor

\* process_directory is not called
InitNoDir ==
  /\ dir_pc = "idle"
  /\ total_videos = 0
  /\ vid_i = 0
  /\ dir_results = <<>>
  /\ dir_summary = FALSE

\* the locals of batch_upload before its first step
InitUploader ==
  /\ up_pc = "file"
  /\ up_i = 0
  /\ up_results = <<>>
  /\ up_emitted = <<>>

\* batch_upload is not called
InitNoUpload ==
  /\ file_paths = <<>>
  /\ InitUploader

\* file_progress is looked at through the events of the batch only
InitNoProgress ==
  /\ fp_n = 1 /\ fp_i = 0 /\ fp_p = 0
  /\ fp_out = -1

\* the split tab runs no task
InitNoTask ==
  /\ st_pc = "idle"
  /\ st_duration = 0
  /\ st_cancelled = FALSE
  /\ st_finished = <<>>

\* ProgressTracker.__init__
InitTracker ==
  /\ tk_now = 0
  /\ tk_calls = 0
  /\ consumed_bytes = 0
  /\ last_progress = -1
  /\ last_update_time = 0
  /\ last_bytes = 0
  /\ tk_events = <<>>

\* no transfer is looked at
InitNoTransfer ==
  /\ tk_pc = "idle"
  /\ total_bytes = 0
  /\ InitTracker

InitNoAux ==
  InitNoDir /\ InitNoUpload /\ InitNoProgress /\ InitNoTask /\ InitNoTransfer

\* batch_transcribe(file_urls): transcribe_audio runs with its defaults
Init ==
  /\ file_urls \in WorkLists
  /\ max_wait_time = BatchMaxWait
  /\ wait_interval = BatchInterval
  /\ max_retries = DEFAULT_MAX_RETRIES
  /\ InitWorker
  /\ InitLane
  /\ InitNoAsset
  /\ InitNoAux

\* a one-item batch, the arguments of transcribe_audio drawn from bounded sets
InitItem ==
  /\ file_urls = << <<"d1", "a">> >>
  /\ max_wait_time \in 1..MaxWaitBound
  /\ wait_interval \in 1..MaxIntervalBound
  /\ max_retries \in 0..MaxRetriesBound
  /\ InitWorker
  /\ InitLane
  /\ InitNoAsset
  /\ InitNoAux

(* ------------------------------ batch_transcribe ---------------------- *)
\* file_result of one item, as appended to result["files"]
FileResult(url, status, json, text, dur, err) ==
  [url |-> url, name |-> basename(url), status |-> status,
   json |-> json, text |-> text, duration |-> dur, error_message |-> err]

\* (mutant: a failed item skips the append)
FinishItem_skip_failed(status, json, text, dur, err, outcome) ==
  /\ files' = IF status = "failed" THEN files
             ELSE Append(files, FileResult(file_urls[i + 1], status, json, text, dur, err))
  /\ i' = i + 1
  /\ pc' = IF i + 1 < total_files THEN "item" ELSE "summary"
  /\ item_outcome' = outcome

\* (mutant: the newest result is put in front)
FinishItem_prepend(status, json, text, dur, err, outcome) ==
  /\ files' = <<FileResult(file_urls[i + 1], status, json, text, dur, err)>> \o files
  /\ i' = i + 1
  /\ pc' = IF i + 1 < total_files THEN "item" ELSE "summary"
  /\ item_outcome' = outcome

\* result["files"].append(file_result) and the next iteration of the for loop
FinishItem(status, json, text, dur, err, outcome) ==
  /\ files' = Append(files, FileResult(file_urls[i + 1], status, json, text, dur, err))
  /\ i' = i + 1
  /\ pc' = IF i + 1 < total_files THEN "item" ELSE "summary"
  /\ item_outcome' = outcome

\* (mutant: the exception of an item leaves the batch)
CatchItemException_uncaught(outcome) ==
  /\ pc' = "raised"
  /\ item_outcome' = outcome
  /\ UNCHANGED <<i, files>>

\* (mutant: a caught exception is recorded like a returned failure)
CatchItemException_as_failed(outcome) ==
  FinishItem("failed", None, None, FALSE, FALSE, outcome)

\* "except Exception as e" of the for loop: status error, error_message, append
CatchItemException(outcome) ==
  FinishItem("error", None, None, FALSE, TRUE, outcome)

\* entry of batch_transcribe: empty list -> error result; os.makedirs may raise
BatchBegin(mk) ==
  /\ pc = "begin"
  /\ IF total_files = 0
       THEN /\ ret' = [status |-> "error"]
            /\ pc' = "returned"
       ELSE /\ ret' = ret
            /\ pc' = IF mk = "ok" THEN "item" ELSE "raised"
  /\ UNCHANGED <<file_urls, max_wait_time, wait_interval, max_retries, i, files,
                 summary_file, summary_error, retry_count, task_id, elapsed,
                 query_retry_count, query_count, result, cancelled, finished,
                 emitted, submit_log, sleeps, query_calls, only_inprogress,
                 item_outcome, summary_runs, cancel_pc, last_query, exc_run, disk, summary_sections,
                 lane_vars, split_vars, aux_vars>>

\* top of the for loop and entry of transcribe_audio, up to the submission loop
ItemStart ==
  /\ pc = "item"
  /\ i < total_files
  /\ emitted' = <<BatchEv(i), FileEv(i, 0)>>
  /\ retry_count' = 0
  /\ task_id' = FALSE
  /\ result' = None
  /\ elapsed' = 0
  /\ query_retry_count' = 0
  /\ query_count' = 0
  /\ submit_log' = <<>>
  /\ sleeps' = <<>>
  /\ query_calls' = 0
  /\ only_inprogress' = TRUE
  /\ item_outcome' = "none"
  /\ last_query' = "none"
  /\ exc_run' = 0
  /\ pc' = "submit"
  /\ UNCHANGED <<file_urls, max_wait_time, wait_interval, max_retries, i, files,
                 summary_file, summary_error, ret, cancelled, finished,
                 summary_runs, cancel_pc, disk, summary_sections,
                 lane_vars, split_vars, aux_vars>>

\* one iteration of the submission loop: backoff (on a retry), submit_task
\* ("ok": a task id; "fail": (None, None); "raise": an exception that leaves
\* transcribe_audio, submit_task building its request outside its own try)
SubmitAttempt(o) ==
  /\ pc = "submit"
  /\ submit_loop_continues(retry_count, max_retries, task_id)
  /\ sleeps' = sleeps \o backoff(retry_count)
  /\ submit_log' = Append(submit_log, o)
  /\ LET note == IF retry_count > 0 THEN <<FileEv(i, 0)>> ELSE <<>>
     IN CASE o = "ok" ->
               /\ task_id' = TRUE
               /\ emitted' = note \o <<FileEv(i, 5)>>
               /\ pc' = "poll"
               /\ UNCHANGED <<retry_count, i, files, item_outcome>>
          [] o = "fail" ->
               /\ retry_count' = retry_count + 1
               /\ emitted' = IF note = <<>> THEN emitted ELSE note
               /\ UNCHANGED <<task_id, pc, i, files, item_outcome>>
          [] o = "raise" ->
               /\ emitted' = IF note = <<>> THEN emitted ELSE note
               /\ CatchItemException("raised")
               /\ UNCHANGED <<retry_count, task_id>>
  /\ UNCHANGED <<file_urls, max_wait_time, wait_interval, max_retries,
                 summary_file, summary_error, ret, elapsed, query_retry_count,
                 query_count, result, cancelled, finished, query_calls,
                 only_inprogress, summary_runs, cancel_pc, last_query, exc_run, disk, summary_sections,
                 lane_vars, split_vars, aux_vars>>

\* (mutant: the loop goes on to poll without a task id)
SubmitExhausted_polls ==
  /\ pc = "submit"
  /\ ~submit_loop_continues(retry_count, max_retries, task_id)
  /\ pc' = "poll"
  /\ UNCHANGED <<emitted, i, files, item_outcome>>
  /\ UNCHANGED <<file_urls, max_wait_time, wait_interval, max_retries,
                 summary_file, summary_error, ret, retry_count, task_id, elapsed,
                 query_retry_count, query_count, result, cancelled, finished,
                 submit_log, sleeps, query_calls, only_inprogress, summary_runs,
                 cancel_pc, last_query, exc_run, disk, summary_sections,
                 lane_vars, split_vars, aux_vars>>

\* the submission loop ended without a task id: "所有重试均失败", return None
SubmitExhausted ==
  /\ pc = "submit"
  /\ ~submit_loop_continues(retry_count, max_retries, task_id)
  /\ emitted' = <<FileEv(i, 100)>>
  /\ FinishItem("failed", None, None, FALSE, FALSE, "submit_exhausted")
  /\ UNCHANGED <<file_urls, max_wait_time, wait_interval, max_retries,
                 summary_file, summary_error, ret, retry_count, task_id, elapsed,
                 query_retry_count, query_count, result, cancelled, finished,
                 submit_log, sleeps, query_calls, only_inprogress, summary_runs,
                 cancel_pc, last_query, exc_run, disk, summary_sections,
                 lane_vars, split_vars, aux_vars>>

(* ------------------------------ polling loop -------------------------- *)
\* what a polling tick can meet: a completed job with its payload, an
\* in-progress status, another status code, a network error that query_task
\* turns into (None, "超时"), or a completed response whose body fails to decode
QueryOutcomes == Payloads \cup {"inprogress", "failed", "neterr", "bad"}

\* except-branch of the tick with the counter value the try-block left behind
TickException(qrc, evs) ==
  /\ query_retry_count' = qrc + 1
  /\ exc_run' = exc_run + 1
  /\ IF qrc + 1 >= max_query_retries
       THEN /\ emitted' = evs \o <<FileEv(i, 100)>>
            /\ FinishItem("failed", None, None, FALSE, FALSE, "poll_errors")
            /\ UNCHANGED <<elapsed>>
       ELSE /\ emitted' = IF evs = <<>> THEN emitted ELSE evs
            /\ elapsed' = elapsed + wait_interval
            /\ UNCHANGED <<pc, i, files, item_outcome>>

\* one iteration of "while time.time() - start_time < max_wait_time"
PollTick(o) ==
  /\ pc = "poll"
  /\ poll_loop_continues(elapsed, max_wait_time, wait_interval)
  /\ query_count' = query_count + 1
  /\ LET eq == expected_queries(max_wait_time, wait_interval)
         tick == IF eq = 0 THEN <<>> ELSE <<FileEv(i, poll_progress(query_count + 1, eq))>>
     IN IF eq = 0
          THEN \* ZeroDivisionError in the progress computation, before the query
               /\ TickException(query_retry_count, tick)
               /\ UNCHANGED <<query_calls, only_inprogress, result, last_query>>
          ELSE /\ query_calls' = query_calls + 1
               /\ only_inprogress' = (only_inprogress /\ o = "inprogress")
               /\ last_query' = o
               /\ CASE status_class(o) = "complete" /\ o \in Payloads ->
                         \* result = response.json(), break, "if not result"
                         /\ result' = o
                         /\ query_retry_count' = 0
                         /\ exc_run' = 0
                         /\ emitted' = tick \o <<FileEv(i, 95), FileEv(i, 100)>>
                         /\ IF truthy(o)
                              THEN /\ pc' = "save"
                                   /\ item_outcome' = "success"
                                   /\ UNCHANGED <<i, files>>
                              ELSE FinishItem("failed", None, None, FALSE, FALSE, "timeout")
                         /\ UNCHANGED <<elapsed>>
                    [] status_class(o) = "complete" /\ o \notin Payloads ->
                         \* response.json() raises after the counter was reset
                         /\ TickException(0, tick)
                         /\ UNCHANGED <<result>>
                    [] status_class(o) = "in_progress" ->
                         /\ query_retry_count' = 0
                         /\ exc_run' = 0
                         /\ emitted' = tick
                         /\ elapsed' = elapsed + wait_interval
                         /\ UNCHANGED <<pc, i, files, item_outcome, result>>
                    [] status_class(o) = "other" ->
                         /\ query_retry_count' = 0
                         /\ exc_run' = 0
                         /\ emitted' = tick \o <<FileEv(i, 100)>>
                         /\ FinishItem("failed", None, None, FALSE, FALSE, "terminal")
                         /\ UNCHANGED <<elapsed, result>>
  /\ UNCHANGED <<file_urls, max_wait_time, wait_interval, max_retries,
                 summary_file, summary_error, ret, retry_count, task_id,
                 cancelled, finished, submit_log, sleeps, summary_runs,
                 cancel_pc, disk, summary_sections, lane_vars, split_vars, aux_vars>>

\* (mutant: the timeout returns without a last progress event)
PollTimeout_silent ==
  /\ pc = "poll"
  /\ ~poll_loop_continues(elapsed, max_wait_time, wait_interval)
  /\ emitted' = emitted
  /\ FinishItem("failed", None, None, FALSE, FALSE, "timeout")
  /\ UNCHANGED <<file_urls, max_wait_time, wait_interval, max_retries,
                 summary_file, summary_error, ret, retry_count, task_id, elapsed,
                 query_retry_count, query_count, result, cancelled, finished,
                 submit_log, sleeps, query_calls, only_inprogress, summary_runs,
                 cancel_pc, last_query, exc_run, disk, summary_sections,
                 lane_vars, split_vars, aux_vars>>

\* the loop condition fails with no result: "转录超时", return None
PollTimeout ==
  /\ pc = "poll"
  /\ ~poll_loop_continues(elapsed, max_wait_time, wait_interval)
  /\ emitted' = <<FileEv(i, 100)>>
  /\ FinishItem("failed", None, None, FALSE, FALSE, "timeout")
  /\ UNCHANGED <<file_urls, max_wait_time, wait_interval, max_retries,
                 summary_file, summary_error, ret, retry_count, task_id, elapsed,
                 query_retry_count, query_count, result, cancelled, finished,
                 submit_log, sleeps, query_calls, only_inprogress, summary_runs,
                 cancel_pc, last_query, exc_run, disk, summary_sections,
                 lane_vars, split_vars, aux_vars>>

\* (mutant: the status set before save_transcript survives its exception)
SaveTranscript_keeps_success(o) ==
  /\ pc = "save"
  /\ LET name == basename(file_urls[i + 1])
         dur == (result = "full")
     IN CASE o = "ok" ->
               /\ disk' = [disk EXCEPT ![name] = i + 1]
               /\ FinishItem("success", output_path(name, "json"),
                             output_path(name, "txt"), dur, FALSE, "success")
          [] o = "text_fail" ->
               /\ disk' = disk
               /\ FinishItem("success", output_path(name, "json"), None, dur, FALSE,
                             "success")
          [] o = "raise" ->
               /\ disk' = disk
               /\ FinishItem("success", None, None, dur, TRUE, "save_raised")
  /\ UNCHANGED <<file_urls, max_wait_time, wait_interval, max_retries,
                 summary_file, summary_error, ret, retry_count, task_id, elapsed,
                 query_retry_count, query_count, result, cancelled, finished,
                 emitted, submit_log, sleeps, query_calls, only_inprogress,
                 summary_runs, cancel_pc, last_query, exc_run, summary_sections,
                 lane_vars, split_vars, aux_vars>>

(* ------------------------------ persisting ---------------------------- *)
\* "if transcript:" branch of the batch: save_transcript writes both files
\* (the text file of that name is replaced), or loses the text file (exception
\* caught inside), or raises on the JSON file
SaveTranscript(o) ==
  /\ pc = "save"
  /\ LET name == basename(file_urls[i + 1])
         dur == (result = "full")
     IN CASE o = "ok" ->
               /\ disk' = [disk EXCEPT ![name] = i + 1]
               /\ FinishItem("success", output_path(name, "json"),
                             output_path(name, "txt"), dur, FALSE, "success")
          [] o = "text_fail" ->
               /\ disk' = disk
               /\ FinishItem("success", output_path(name, "json"), None, dur, FALSE,
                             "success")
          [] o = "raise" ->
               /\ disk' = disk
               /\ CatchItemException("save_raised")
  /\ UNCHANGED <<file_urls, max_wait_time, wait_interval, max_retries,
                 summary_file, summary_error, ret, retry_count, task_id, elapsed,
                 query_retry_count, query_count, result, cancelled, finished,
                 emitted, submit_log, sleeps, query_calls, only_inprogress,
                 summary_runs, cancel_pc, last_query, exc_run, summary_sections,
                 lane_vars, split_vars, aux_vars>>

\* one section of all_transcripts.txt: "### name", then the lines of the text
\* file after its "## 完整文本" line, or "读取文件失败" when reading it raises,
\* or "转录失败或文件不存在"
SummarySection(fr, read_fails) ==
  [name |-> fr.name,
   body |-> IF fr.status = "success" /\ fr.text # None /\ disk[fr.name] # 0
              THEN IF read_fails THEN [kind |-> "read_failed", of |-> 0]
                   ELSE [kind |-> "text", of |-> disk[fr.name]]
              ELSE [kind |-> "marker", of |-> 0]]

\* the sections of the summary, the read of section rf failing (0: none);
\* nothing is written when the summary file cannot be opened
SummarySections(o, rf) ==
  IF o = "raise_early" THEN <<>>
  ELSE [k \in 1..Len(files) |-> SummarySection(files[k], k = rf)]

\* (mutant: the exception of the summary step is not caught)
GenerateSummary_uncaught(o, rf) ==
  /\ pc = "summary"
  /\ rf \in 0..total_files
  /\ summary_sections' = SummarySections(o, rf)
  /\ summary_runs' = summary_runs + 1
  /\ summary_file' = IF o \in {"ok", "raise_on_close"} THEN "all_transcripts.txt" ELSE summary_file
  /\ summary_error' = summary_error
  /\ emitted' = <<FinalEv>>
  /\ ret' = [status |-> "success"]
  /\ pc' = IF o = "ok" THEN "returned" ELSE "raised"
  \* the locals of the last transcribe_audio call are gone; its history is closed
  /\ retry_count' = 0
  /\ task_id' = FALSE
  /\ elapsed' = 0
  /\ query_retry_count' = 0
  /\ query_count' = 0
  /\ result' = None
  /\ submit_log' = <<>>
  /\ sleeps' = <<>>
  /\ query_calls' = 0
  /\ only_inprogress' = TRUE
  /\ item_outcome' = "none"
  /\ last_query' = "none"
  /\ exc_run' = 0
  /\ UNCHANGED <<file_urls, max_wait_time, wait_interval, max_retries, i, files,
                 cancelled, finished, cancel_pc, disk,
                 lane_vars, split_vars, aux_vars>>

\* (mutant: a failed summary turns the top-level status into 'error')
GenerateSummary_failure_is_error(o, rf) ==
  /\ pc = "summary"
  /\ rf \in 0..total_files
  /\ summary_sections' = SummarySections(o, rf)
  /\ summary_runs' = summary_runs + 1
  /\ summary_file' = IF o \in {"ok", "raise_on_close"} THEN "all_transcripts.txt" ELSE summary_file
  /\ summary_error' = IF o = "ok" THEN summary_error ELSE "error"
  /\ emitted' = <<FinalEv>>
  /\ ret' = [status |-> IF o = "ok" THEN "success" ELSE "error"]
  /\ pc' = "returned"
  \* the locals of the last transcribe_audio call are gone; its history is closed
  /\ retry_count' = 0
  /\ task_id' = FALSE
  /\ elapsed' = 0
  /\ query_retry_count' = 0
  /\ query_count' = 0
  /\ result' = None
  /\ submit_log' = <<>>
  /\ sleeps' = <<>>
  /\ query_calls' = 0
  /\ only_inprogress' = TRUE
  /\ item_outcome' = "none"
  /\ last_query' = "none"
  /\ exc_run' = 0
  /\ UNCHANGED <<file_urls, max_wait_time, wait_interval, max_retries, i, files,
                 cancelled, finished, cancel_pc, disk,
                 lane_vars, split_vars, aux_vars>>

\* _generate_summary inside its try, the final progress event and the return;
\* the summary may fail before summary_file is set, or when the file is closed
GenerateSummary(o, rf) ==
  /\ pc = "summary"
  /\ rf \in 0..total_files
  /\ summary_sections' = SummarySections(o, rf)
  /\ summary_runs' = summary_runs + 1
  /\ summary_file' = IF o \in {"ok", "raise_on_close"} THEN "all_transcripts.txt" ELSE summary_file
  /\ summary_error' = IF o = "ok" THEN summary_error ELSE "error"
  /\ emitted' = <<FinalEv>>
  /\ ret' = [status |-> "success"]
  /\ pc' = "returned"
  \* the locals of the last transcribe_audio call are gone; its history is closed
  /\ retry_count' = 0
  /\ task_id' = FALSE
  /\ elapsed' = 0
  /\ query_retry_count' = 0
  /\ query_count' = 0
  /\ result' = None
  /\ submit_log' = <<>>
  /\ sleeps' = <<>>
  /\ query_calls' = 0
  /\ only_inprogress' = TRUE
  /\ item_outcome' = "none"
  /\ last_query' = "none"
  /\ exc_run' = 0
  /\ UNCHANGED <<file_urls, max_wait_time, wait_interval, max_retries, i, files,
                 cancelled, finished, cancel_pc, disk,
                 lane_vars, split_vars, aux_vars>>

(* ------------------------------ WorkerThread -------------------------- *)
\* (mutant: the completion event is emitted whatever the cancelled flag)
run_emits_always(how, c) ==
  IF how = "raised" THEN <<FALSE>> ELSE <<TRUE>>

\* (mutant: a cancelled worker emits nothing, even when the task raised)
run_emits_cancel_silences(how, c) ==
  IF c THEN <<>>
  ELSE IF how = "raised" THEN <<FALSE>> ELSE <<TRUE>>

\* (mutant: a task that raised is reported as a success)
run_emits_raise_as_success(how, c) ==
  IF how = "raised" THEN <<TRUE>>
  ELSE IF ~c THEN <<TRUE>> ELSE <<>>

\* task_finished events of run(): (True, result) if the task returned and the
\* worker is not cancelled, (False, message) if the task raised
run_emits(how, c) ==
  IF how = "raised" THEN <<FALSE>>
  ELSE IF ~c THEN <<TRUE>> ELSE <<>>

\* the end of WorkerThread.run, after task_func returned or raised
RunFinish ==
  /\ pc \in {"returned", "raised"}
  /\ finished' = finished \o run_emits(pc, cancelled)
  /\ pc' = IF pc = "raised" THEN "done_raised" ELSE "done"
  /\ UNCHANGED <<file_urls, max_wait_time, wait_interval, max_retries, i, files,
                 summary_file, summary_error, ret, retry_count, task_id, elapsed,
                 query_retry_count, query_count, result, cancelled, emitted,
                 submit_log, sleeps, query_calls, only_inprogress, item_outcome,
                 summary_runs, cancel_pc, last_query, exc_run, disk, summary_sections,
                 lane_vars, split_vars, aux_vars>>

\* (mutant: cancel() ends the task function where it stands)
Cancel_interrupts ==
  /\ ~cancelled
  /\ cancelled' = TRUE
  /\ cancel_pc' = IF pc \in {"done", "done_raised"} THEN "after_run"
                  ELSE IF pc \in {"returned", "raised"} THEN "before_check"
                  ELSE "in_task"
  /\ pc' = IF pc \in {"done", "done_raised", "returned", "raised"} THEN pc ELSE "returned"
  /\ UNCHANGED <<file_urls, max_wait_time, wait_interval, max_retries, i,
                 files, summary_file, summary_error, ret, retry_count, task_id,
                 elapsed, query_retry_count, query_count, result, finished,
                 emitted, submit_log, sleeps, query_calls, only_inprogress,
                 item_outcome, summary_runs, last_query, exc_run, disk, summary_sections,
                 lane_vars, split_vars, aux_vars>>

\* WorkerThread.cancel(), called from the control context at any time
Cancel ==
  /\ ~cancelled
  /\ cancelled' = TRUE
  /\ cancel_pc' = IF pc \in {"done", "done_raised"} THEN "after_run"
                  ELSE IF pc \in {"returned", "raised"} THEN "before_check"
                  ELSE "in_task"
  /\ UNCHANGED <<pc, file_urls, max_wait_time, wait_interval, max_retries, i,
                 files, summary_file, summary_error, ret, retry_count, task_id,
                 elapsed, query_retry_count, query_count, result, finished,
                 emitted, submit_log, sleeps, query_calls, only_inprogress,
                 item_outcome, summary_runs, last_query, exc_run, disk, summary_sections,
                 lane_vars, split_vars, aux_vars>>

Next ==
  \/ \E mk \in {"ok", "raise"} : BatchBegin(mk)
  \/ ItemStart
  \/ \E o \in {"ok", "fail", "raise"} : SubmitAttempt(o)
  \/ SubmitExhausted
  \/ \E o \in QueryOutcomes : PollTick(o)
  \/ PollTimeout
  \/ \E o \in {"ok", "text_fail", "raise"} : SaveTranscript(o)
  \/ \E o \in {"ok", "raise_early", "raise_on_close"}, rf \in 0..MaxFiles :
        GenerateSummary(o, rf)
  \/ RunFinish
  \/ Cancel

Spec == Init /\ [][Next]_vars

SpecItem == InitItem /\ [][Next]_vars

\* every call made by the batch returns and the clock advances: a step that
\* can be taken is taken
SpecLive == Init /\ [][Next]_vars /\ WF_vars(Next)

(* ------------------------------ one lane ------------------------------ *)
\* a worker thread is executing from start() until run() has ended
Executing(w) == threads[w].st \in {"running", "returned", "raised"}

\* the end of a start action: either it returned at a check, or it disabled
\* the start button and created and started worker w on a list of n items
StartOutcome(w, accepted, n) ==
  IF accepted
    THEN /\ start_result' = "started"
         /\ start_btn' = FALSE
         /\ cancel_btn' = TRUE
         /\ is_running' = TRUE
         /\ worker' = w
         /\ worker_items' = n
         /\ threads' = [threads EXCEPT ![w].st = "running"]
    ELSE /\ start_result' = "rejected"
         /\ UNCHANGED <<start_btn, cancel_btn, is_running, worker, worker_items,
                        threads>>

\* (mutant: the list is not checked)
start_transcription_unchecked(w, cfg_ok, typed) ==
  /\ lane_kind = "transcription"
  /\ start_btn
  /\ threads[w].st = "unborn"
  /\ \A v \in 1..NumWorkers : v < w => threads[v].st # "unborn"
  /\ LET parsed == IF cfg_ok /\ tab_list = 0 /\ typed > 0 THEN typed ELSE tab_list
     IN /\ tab_list' = parsed
        /\ StartOutcome(w, cfg_ok, parsed)
  /\ UNCHANGED <<sigq, lane_kind, batch_vars, split_vars, aux_vars>>

\* TranscriptionTab.start_transcription, reachable through the enabled start
\* button only: the API configuration is checked, an empty list is parsed from
\* the URL box (which holds typed valid URLs), and with the list still empty
\* the action returns
start_transcription(w, cfg_ok, typed) ==
  /\ lane_kind = "transcription"
  /\ start_btn
  /\ threads[w].st = "unborn"
  /\ \A v \in 1..NumWorkers : v < w => threads[v].st # "unborn"
  /\ LET parsed == IF cfg_ok /\ tab_list = 0 /\ typed > 0 THEN typed ELSE tab_list
     IN /\ tab_list' = parsed
        /\ StartOutcome(w, cfg_ok /\ parsed > 0, parsed)
  /\ UNCHANGED <<sigq, lane_kind, batch_vars, split_vars, aux_vars>>

\* UploadTab.start_upload: the list, the TOS configuration and the SDK are
\* checked (cfg_ok: both of the latter pass) before the worker is created
start_upload(w, cfg_ok) ==
  /\ lane_kind = "upload"
  /\ start_btn
  /\ threads[w].st = "unborn"
  /\ \A v \in 1..NumWorkers : v < w => threads[v].st # "unborn"
  /\ StartOutcome(w, tab_list > 0 /\ cfg_ok, tab_list)
  /\ UNCHANGED <<sigq, lane_kind, tab_list, batch_vars, split_vars, aux_vars>>

\* TranscriptionTab.parse_urls with typed >= 1 valid URLs in the box
\* (with none it warns and returns)
parse_urls(typed) ==
  /\ lane_kind = "transcription"
  /\ typed > 0
  /\ tab_list' = typed
  /\ UNCHANGED <<is_running, start_btn, cancel_btn, worker, threads, sigq,
                 lane_kind, worker_items, start_result, batch_vars, split_vars, aux_vars>>

\* TranscriptionTab.clear_urls on a non-empty box, the confirmation answered Yes
clear_urls ==
  /\ lane_kind = "transcription"
  /\ tab_list' = 0
  /\ UNCHANGED <<is_running, start_btn, cancel_btn, worker, threads, sigq,
                 lane_kind, worker_items, start_result, batch_vars, split_vars, aux_vars>>

\* UploadTab.add_files: n paths that are not yet in the list
add_files(n) ==
  /\ lane_kind = "upload"
  /\ tab_list + n <= MaxTabList
  /\ tab_list' = tab_list + n
  /\ UNCHANGED <<is_running, start_btn, cancel_btn, worker, threads, sigq,
                 lane_kind, worker_items, start_result, batch_vars, split_vars, aux_vars>>

\* UploadTab.clear_list on a non-empty list, the confirmation answered Yes
clear_list ==
  /\ lane_kind = "upload"
  /\ tab_list > 0
  /\ tab_list' = 0
  /\ UNCHANGED <<is_running, start_btn, cancel_btn, worker, threads, sigq,
                 lane_kind, worker_items, start_result, batch_vars, split_vars, aux_vars>>

\* cancel_task of the tab with the confirmation answered Yes
\* (answered No it changes nothing)
cancel_task ==
  /\ worker # 0
  /\ is_running
  /\ threads' = [threads EXCEPT ![worker].cancelled = TRUE]
  /\ is_running' = FALSE
  /\ start_btn' = TRUE
  /\ cancel_btn' = FALSE
  /\ UNCHANGED <<worker, sigq, lane_kind, tab_list, worker_items, start_result,
                 batch_vars, split_vars, aux_vars>>

\* the task function of worker w returns or raises
TaskEnds(w, how) ==
  /\ threads[w].st = "running"
  /\ threads' = [threads EXCEPT ![w].st = how]
  /\ UNCHANGED <<is_running, start_btn, cancel_btn, worker, sigq, lane_kind,
                 tab_list, worker_items, start_result, batch_vars, split_vars, aux_vars>>

\* the end of WorkerThread.run of worker w; task_finished is queued to the tab
ThreadFinish(w) ==
  /\ threads[w].st \in {"returned", "raised"}
  /\ LET evs == run_emits(threads[w].st, threads[w].cancelled)
     IN /\ sigq' = sigq \o [k \in 1..Len(evs) |-> <<w, evs[k]>>]
        /\ threads' = [threads EXCEPT ![w].st = "finished",
                                      ![w].emits = @ + Len(evs)]
  /\ UNCHANGED <<is_running, start_btn, cancel_btn, worker, lane_kind, tab_list,
                 worker_items, start_result, batch_vars, split_vars, aux_vars>>

\* on_task_finished / on_upload_finished, the slot of every worker's
\* task_finished
on_task_finished ==
  /\ sigq # <<>>
  /\ sigq' = Tail(sigq)
  /\ is_running' = FALSE
  /\ start_btn' = TRUE
  /\ cancel_btn' = FALSE
  /\ UNCHANGED <<worker, threads, lane_kind, tab_list, worker_items, start_result,
                 batch_vars, split_vars, aux_vars>>

NextLane ==
  \/ \E w \in 1..NumWorkers, cfg_ok \in BOOLEAN, typed \in 0..MaxTabList :
        start_transcription(w, cfg_ok, typed)
  \/ \E w \in 1..NumWorkers, cfg_ok \in BOOLEAN : start_upload(w, cfg_ok)
  \/ \E typed \in 1..MaxTabList : parse_urls(typed)
  \/ clear_urls
  \/ \E n \in 1..MaxTabList : add_files(n)
  \/ clear_list
  \/ cancel_task
  \/ \E w \in 1..NumWorkers, how \in {"returned", "raised"} : TaskEnds(w, how)
  \/ \E w \in 1..NumWorkers : ThreadFinish(w)
  \/ on_task_finished

\* the lane alone (either tab): the batch variables keep their initial values
InitLaneOnly ==
  /\ file_urls = <<>>
  /\ max_wait_time = BatchMaxWait
  /\ wait_interval = BatchInterval
  /\ max_retries = DEFAULT_MAX_RETRIES
  /\ InitWorker
  /\ InitTab("transcription") \/ InitTab("upload")
  /\ InitNoAsset
  /\ InitNoAux

SpecLane == InitLaneOnly /\ [][NextLane]_vars

\* the start actions of a lane next to batch_transcribe called on an empty list
NextStart ==
  \/ NextLane
  \/ \E mk \in {"ok", "raise"} : BatchBegin(mk)

SpecStart == InitLaneOnly /\ [][NextStart]_vars

(* ------------------------------ process_video ------------------------- *)
\* the audio file itself, returned when nothing is cut
WholeFile == [file |-> 0, start |-> 0, end |-> asset_duration]

\* entry of process_video: get_video_duration returns the length, or 0 when
\* the probe fails
ProcessVideoBegin(probe_ok) ==
  /\ sp_pc = "begin"
  /\ video_duration' = IF probe_ok THEN asset_duration ELSE 0
  /\ sp_pc' = "extract"
  /\ UNCHANGED <<asset_duration, segment_duration, split_how, segment_count,
                 seg_i, segments, segment_info, batch_vars, lane_vars, aux_vars>>

\* extract_audio: without an audio file process_video returns the result
\* it has, with no segments
ExtractAudio(ok) ==
  /\ sp_pc = "extract"
  /\ sp_pc' = IF ok THEN "split" ELSE "done"
  /\ UNCHANGED <<asset_duration, segment_duration, video_duration, split_how,
                 segment_count, seg_i, segments, segment_info, batch_vars,
                 lane_vars, aux_vars>>

\* entry of split_audio up to the loop: the early returns ([] for a missing
\* file, [audio_path] for no split, a failed probe or a short asset), or the
\* segment count
SplitAudioBegin(o) ==
  /\ sp_pc = "split"
  /\ seg_i' = 0
  /\ IF o = "missing"
       THEN /\ split_how' = "missing"
            /\ segments' = <<>>
            /\ sp_pc' = "info"
            /\ UNCHANGED <<segment_count>>
       ELSE IF segment_duration <= 0
       THEN /\ split_how' = "no_split"
            /\ segments' = <<WholeFile>>
            /\ sp_pc' = "info"
            /\ UNCHANGED <<segment_count>>
       ELSE IF o = "probe_fail"
       THEN /\ split_how' = "probe_fail"
            /\ segments' = <<WholeFile>>
            /\ sp_pc' = "info"
            /\ UNCHANGED <<segment_count>>
       ELSE IF asset_duration <= segment_duration
       THEN /\ split_how' = "short"
            /\ segments' = <<WholeFile>>
            /\ sp_pc' = "info"
            /\ UNCHANGED <<segment_count>>
       ELSE /\ split_how' = "plan"
            /\ segment_count' = segment_count_of(asset_duration, segment_duration)
            /\ segments' = <<>>
            /\ sp_pc' = "cut"
  /\ UNCHANGED <<asset_duration, segment_duration, video_duration, segment_info,
                 batch_vars, lane_vars, aux_vars>>

\* one iteration of "for i in range(segment_count)": ffmpeg cuts the segment
\* file {basename}_segment_{i+1}; a failed cut is logged and skipped
CutSegment(ok) ==
  /\ sp_pc = "cut"
  /\ seg_i < segment_count
  /\ LET w == cut_window(segment_start(seg_i, segment_duration), segment_duration,
                         asset_duration)
     IN segments' = IF ok THEN Append(segments, [file |-> seg_i + 1,
                                                  start |-> w.start, end |-> w.end])
                   ELSE segments
  /\ seg_i' = seg_i + 1
  /\ UNCHANGED <<sp_pc, asset_duration, segment_duration, video_duration,
                 split_how, segment_count, segment_info, batch_vars, lane_vars, aux_vars>>

\* the loop is over: "return segments"
SplitAudioEnd ==
  /\ sp_pc = "cut"
  /\ seg_i = segment_count
  /\ sp_pc' = "info"
  /\ UNCHANGED <<asset_duration, segment_duration, video_duration, split_how,
                 segment_count, seg_i, segments, segment_info, batch_vars,
                 lane_vars, aux_vars>>

\* "for i, segment_path in enumerate(audio_segments)" of process_video and the
\* write of the metadata file, which may raise
SegmentInfo(write_ok) ==
  /\ sp_pc = "info"
  /\ segment_info' =
       [k \in 1..Len(segments) |->
          [file |-> segments[k].file,
           index |-> k,
           start_time |-> (k - 1) * segment_duration,
           end_time |-> Min(k * segment_duration, video_duration)]]
  /\ sp_pc' = IF write_ok THEN "done" ELSE "raised"
  /\ UNCHANGED <<asset_duration, segment_duration, video_duration, split_how,
                 segment_count, seg_i, segments, batch_vars, lane_vars, aux_vars>>

NextSplit ==
  \/ \E probe_ok \in BOOLEAN : ProcessVideoBegin(probe_ok)
  \/ \E ok \in BOOLEAN : ExtractAudio(ok)
  \/ \E o \in {"missing", "probe_fail", "ok"} : SplitAudioBegin(o)
  \/ \E ok \in BOOLEAN : CutSegment(ok)
  \/ SplitAudioEnd
  \/ \E write_ok \in BOOLEAN : SegmentInfo(write_ok)

\* process_video on one asset, its length and the segment length drawn from
\* bounded sets; the batch and lane variables keep their initial values
InitSplit ==
  /\ file_urls = <<>>
  /\ max_wait_time = BatchMaxWait
  /\ wait_interval = BatchInterval
  /\ max_retries = DEFAULT_MAX_RETRIES
  /\ InitWorker
  /\ InitLane
  /\ asset_duration \in 1..MaxDuration
  /\ segment_duration \in 0..MaxSegment
  /\ InitProcessor
  /\ InitNoAux

SpecSplit == InitSplit /\ [][NextSplit]_vars

(* ----------------------- SplitAudioTab.split_audio_task --------------- *)
\* (mutant: a duration that is not positive does not stop the task)
SplitAudioTask_no_abort(probe_ok) ==
  /\ st_pc = "begin"
  /\ st_duration' = IF probe_ok THEN asset_duration ELSE 0
  /\ st_pc' = "split_audio"
  /\ sp_pc' = "split"
  /\ UNCHANGED <<st_cancelled, st_finished, asset_duration, segment_duration,
                 video_duration, split_how, segment_count, seg_i, segments,
                 segment_info, batch_vars, lane_vars, dir_vars, up_vars, fp_vars,
                 tk_vars>>

\* entry of split_audio_task: get_video_duration returns the length, or 0 when
\* the probe fails; "if duration <= 0: raise ValueError", which the except
\* clause of the task reports and raises again; otherwise the task goes on to
\* processor.split_audio (AudioProcessor has no process_audio)
SplitAudioTask(probe_ok) ==
  /\ st_pc = "begin"
  /\ st_duration' = IF probe_ok THEN asset_duration ELSE 0
  /\ IF st_duration' <= 0
       THEN /\ st_pc' = "raised"
            /\ sp_pc' = sp_pc
       ELSE /\ st_pc' = "split_audio"
            /\ sp_pc' = "split"
  /\ UNCHANGED <<st_cancelled, st_finished, asset_duration, segment_duration,
                 video_duration, split_how, segment_count, seg_i, segments,
                 segment_info, batch_vars, lane_vars, dir_vars, up_vars, fp_vars,
                 tk_vars>>

\* split_audio returned its list: the task returns its result dict
SplitAudioTaskReturn ==
  /\ st_pc = "split_audio"
  /\ sp_pc = "info"
  /\ st_pc' = "returned"
  /\ sp_pc' = "idle"
  /\ UNCHANGED <<st_duration, st_cancelled, st_finished, asset_duration,
                 segment_duration, video_duration, split_how, segment_count,
                 seg_i, segments, segment_info, batch_vars, lane_vars, dir_vars,
                 up_vars, fp_vars, tk_vars>>

\* WorkerThread.cancel() while the thread runs: the flag is set, nothing else
SplitTaskCancel ==
  /\ st_pc \in {"begin", "split_audio", "returned", "raised"}
  /\ ~st_cancelled
  /\ st_cancelled' = TRUE
  /\ UNCHANGED <<st_pc, st_duration, st_finished, split_vars, batch_vars,
                 lane_vars, dir_vars, up_vars, fp_vars, tk_vars>>

\* the end of WorkerThread.run for the split task
SplitTaskRunFinish ==
  /\ st_pc \in {"returned", "raised"}
  /\ st_finished' = st_finished \o run_emits(st_pc, st_cancelled)
  /\ st_pc' = "done"
  /\ UNCHANGED <<st_duration, st_cancelled, split_vars, batch_vars, lane_vars,
                 dir_vars, up_vars, fp_vars, tk_vars>>

NextSplitTask ==
  \/ \E probe_ok \in BOOLEAN : SplitAudioTask(probe_ok)
  \/ \E o \in {"missing", "probe_fail", "ok"} : SplitAudioBegin(o)
  \/ \E ok \in BOOLEAN : CutSegment(ok)
  \/ SplitAudioEnd
  \/ SplitAudioTaskReturn
  \/ SplitTaskCancel
  \/ SplitTaskRunFinish

\* a worker runs split_audio_task on one file; start_splitting accepts a segment
\* length of at least 1 only
InitSplitTask ==
  /\ file_urls = <<>>
  /\ max_wait_time = BatchMaxWait
  /\ wait_interval = BatchInterval
  /\ max_retries = DEFAULT_MAX_RETRIES
  /\ InitWorker
  /\ InitLane
  /\ asset_duration \in 1..MaxDuration
  /\ segment_duration \in 1..MaxSegment
  /\ sp_pc = "idle"
  /\ video_duration = 0
  /\ split_how = "none"
  /\ segment_count = 0
  /\ seg_i = 0
  /\ segments = <<>>
  /\ segment_info = <<>>
  /\ InitNoDir
  /\ InitNoUpload
  /\ InitNoProgress
  /\ st_pc = "begin"
  /\ st_duration = 0
  /\ st_cancelled = FALSE
  /\ st_finished = <<>>
  /\ InitNoTransfer

SpecSplitTask == InitSplitTask /\ [][NextSplitTask]_vars

(* ------------------------- one call of file_progress ------------------ *)
\* the call file_progress(percent, message) of item i
PublishProgress ==
  /\ fp_out = -1
  /\ fp_out' = file_progress(fp_i, fp_p, fp_n)
  /\ UNCHANGED <<fp_n, fp_i, fp_p, batch_vars, lane_vars, split_vars, dir_vars,
                 up_vars, st_vars, tk_vars>>

NextProgress == PublishProgress

\* up to 8 files the float expression and the exact quotient agree
ExactUpTo8 ==
  (fp_out # -1 /\ fp_n <= 8) => fp_out = overall_progress(fp_i, fp_p, fp_n)

\* file_progress of a batch of fp_n files, called for an item and a percent
InitProgress ==
  /\ file_urls = <<>>
  /\ max_wait_time = BatchMaxWait
  /\ wait_interval = BatchInterval
  /\ max_retries = DEFAULT_MAX_RETRIES
  /\ InitWorker
  /\ InitLane
  /\ InitNoAsset
  /\ InitNoDir
  /\ InitNoTask
  /\ InitNoTransfer
  /\ InitNoUpload
  /\ fp_n \in 1..MaxBatch
  /\ fp_i \in 0..(fp_n - 1)
  /\ fp_p \in 0..100
  /\ fp_out = -1

SpecProgress == InitProgress /\ [][NextProgress]_vars

(* ---------------------------- process_directory ----------------------- *)
\* entry of process_directory up to the loop: [] for a missing directory or a
\* directory without videos; os.makedirs(output_dir) may raise
DirBegin(is_dir, found, mk_ok) ==
  /\ dir_pc = "begin"
  /\ IF ~is_dir \/ found = 0
       THEN /\ dir_pc' = "returned"
            /\ UNCHANGED <<total_videos>>
       ELSE /\ total_videos' = found
            /\ dir_pc' = IF mk_ok THEN "video" ELSE "raised"
  /\ UNCHANGED <<vid_i, dir_results, dir_summary, batch_vars, lane_vars,
                 split_vars, up_vars, fp_vars, st_vars,
                 tk_vars>>

\* top of "for i, video_path in enumerate(video_files)": process_video is
\* called on the next video
VideoStart ==
  /\ dir_pc = "video"
  /\ vid_i < total_videos
  /\ dir_pc' = "in_video"
  /\ sp_pc' = "begin"
  /\ video_duration' = 0
  /\ split_how' = "none"
  /\ segment_count' = 0
  /\ seg_i' = 0
  /\ segments' = <<>>
  /\ segment_info' = <<>>
  /\ UNCHANGED <<asset_duration, segment_duration, total_videos, vid_i,
                 dir_results, dir_summary, batch_vars, lane_vars, up_vars,
                 fp_vars, st_vars,
                 tk_vars>>

\* process_video is over: "results.append(result)" when it returned; its
\* exception leaves process_directory, no try enclosing the call
VideoEnd ==
  /\ dir_pc = "in_video"
  /\ sp_pc \in {"done", "raised"}
  /\ IF sp_pc = "done"
       THEN /\ dir_results' = Append(dir_results,
                                     [audio |-> split_how # "none",
                                      segments_count |-> Len(segments)])
            /\ vid_i' = vid_i + 1
            /\ dir_pc' = IF vid_i + 1 < total_videos THEN "video" ELSE "summary"
       ELSE /\ dir_pc' = "raised"
            /\ UNCHANGED <<dir_results, vid_i>>
  /\ sp_pc' = "idle"
  /\ UNCHANGED <<asset_duration, segment_duration, video_duration, split_how,
                 segment_count, seg_i, segments, segment_info, total_videos,
                 dir_summary, batch_vars, lane_vars, up_vars, fp_vars, st_vars,
                 tk_vars>>

\* after the loop: the extraction summary is written (open may raise), then
\* "return results"
DirSummary(write_ok) ==
  /\ dir_pc = "summary"
  /\ dir_summary' = write_ok
  /\ dir_pc' = IF write_ok THEN "returned" ELSE "raised"
  /\ UNCHANGED <<total_videos, vid_i, dir_results, batch_vars, lane_vars,
                 split_vars, up_vars, fp_vars, st_vars,
                 tk_vars>>

NextDir ==
  \/ \E is_dir \in BOOLEAN, found \in 0..MaxVideos, mk_ok \in BOOLEAN :
       DirBegin(is_dir, found, mk_ok)
  \/ VideoStart
  \/ NextSplit
  \/ VideoEnd
  \/ \E write_ok \in BOOLEAN : DirSummary(write_ok)

\* process_directory(input_dir): the videos have one length, drawn with the
\* segment length from bounded sets; no process_video call is in progress
InitDir ==
  /\ file_urls = <<>>
  /\ max_wait_time = BatchMaxWait
  /\ wait_interval = BatchInterval
  /\ max_retries = DEFAULT_MAX_RETRIES
  /\ InitWorker
  /\ InitLane
  /\ asset_duration \in 1..MaxDuration
  /\ segment_duration \in 0..MaxSegment
  /\ sp_pc = "idle"
  /\ video_duration = 0
  /\ split_how = "none"
  /\ segment_count = 0
  /\ seg_i = 0
  /\ segments = <<>>
  /\ segment_info = <<>>
  /\ dir_pc = "begin"
  /\ total_videos = 0
  /\ vid_i = 0
  /\ dir_results = <<>>
  /\ dir_summary = FALSE
  /\ InitNoTask
  /\ InitNoTransfer
  /\ InitNoUpload
  /\ InitNoProgress

SpecDir == InitDir /\ [][NextDir]_vars

(* ------------------------------ batch_upload -------------------------- *)
\* the local files a list can name
UploadPaths == {"p1", "p2", "p3", "p4"}

\* the lists of the upload tab: add_files appends a path only if it is not
\* in the list yet
PathLists ==
  {s \in SeqsUpTo(UploadPaths, MaxUploads) :
     \A a, b \in 1..Len(s) : a # b => s[a] # s[b]}

\* int(100 * i / total_files + percent / total_files); with percent = 0 the
\* value of int(100 * i / total_files)
upload_progress(idx, percent, n) == ((100 * idx) + percent) \div n

\* what upload_file meets: no client, a missing file, an exception of the
\* transfer, or a completed transfer
UploadOutcomes == {"no_client", "missing", "fail", "ok"}

\* (mutant: upload_file lets the exception of the transfer through)
upload_file_uncaught(o) == IF o = "ok" THEN "url" ELSE IF o = "fail" THEN "raise" ELSE None

\* upload_file: the URL of the object, or None (early returns, and every
\* exception of the transfer caught by "except Exception")
upload_file(o) == IF o = "ok" THEN "url" ELSE None

\* one iteration of "for i, file_path in enumerate(file_paths)"
UploadFile(o) ==
  /\ up_pc = "file"
  /\ up_i < Len(file_paths)
  /\ LET n == Len(file_paths)
         url == upload_file(o)
     IN IF url = "raise"
          THEN /\ up_pc' = "raised"
               /\ up_emitted' = <<upload_progress(up_i, 0, n)>>
               /\ UNCHANGED <<up_i, up_results>>
          ELSE /\ up_emitted' = <<upload_progress(up_i, 0, n)>> \o
                                (IF o = "ok" THEN <<upload_progress(up_i, 100, n)>>
                                 ELSE <<>>)
               /\ up_results' = (file_paths[up_i + 1] :> url) @@ up_results
               /\ up_i' = up_i + 1
               /\ UNCHANGED <<up_pc>>
  /\ UNCHANGED <<file_paths, batch_vars, lane_vars, split_vars, dir_vars, fp_vars, st_vars,
                 tk_vars>>

\* after the loop: progress_callback(100, ...), "return results"
UploadEnd ==
  /\ up_pc = "file"
  /\ up_i = Len(file_paths)
  /\ up_emitted' = <<100>>
  /\ up_pc' = "returned"
  /\ UNCHANGED <<file_paths, up_i, up_results, batch_vars, lane_vars, split_vars,
                 dir_vars, fp_vars, st_vars,
                 tk_vars>>

NextUpload ==
  \/ \E o \in UploadOutcomes : UploadFile(o)
  \/ UploadEnd

\* batch_upload(file_paths) on a list of the upload tab
InitUpload ==
  /\ file_urls = <<>>
  /\ max_wait_time = BatchMaxWait
  /\ wait_interval = BatchInterval
  /\ max_retries = DEFAULT_MAX_RETRIES
  /\ InitWorker
  /\ InitLane
  /\ InitNoAsset
  /\ InitNoTask
  /\ InitNoTransfer
  /\ InitNoDir
  /\ InitNoProgress
  /\ file_paths \in PathLists
  /\ InitUploader

SpecUpload == InitUpload /\ [][NextUpload]_vars

(* --------------------- upload_file: ProgressTracker ------------------- *)
\* int(100 * float(consumed_bytes) / float(total_bytes))
transfer_progress(consumed, total) == (100 * consumed) \div total

\* the condition under which track_progress calls progress_callback
track_emits(progress, el, last) ==
  \/ progress # last
  \/ el >= update_interval
  \/ progress = 100

\* one call of track_progress by the SDK, dt seconds after the previous one,
\* with the bytes consumed so far
TrackProgress(consumed, dt) ==
  /\ tk_pc = "transfer"
  /\ tk_calls < MaxCalls
  /\ consumed \in consumed_bytes..total_bytes
  /\ consumed_bytes' = consumed
  /\ tk_now' = tk_now + dt
  /\ tk_calls' = tk_calls + 1
  /\ IF total_bytes = 0
       THEN UNCHANGED <<last_progress, last_update_time, last_bytes, tk_events>>
       ELSE LET progress == transfer_progress(consumed, total_bytes)
                el == tk_now' - last_update_time
            IN IF track_emits(progress, el, last_progress)
                 THEN /\ tk_events' = Append(tk_events,
                                             [progress |-> progress, time |-> tk_now'])
                      /\ last_progress' = progress
                      /\ last_update_time' = tk_now'
                      /\ last_bytes' = consumed
                 ELSE UNCHANGED <<last_progress, last_update_time, last_bytes,
                                  tk_events>>
  /\ UNCHANGED <<tk_pc, total_bytes, batch_vars, lane_vars, split_vars, dir_vars,
                 up_vars, fp_vars, st_vars>>

\* put_object_from_file returns, or raises and upload_file returns None
TransferEnd(ok) ==
  /\ tk_pc = "transfer"
  /\ tk_pc' = IF ok THEN "uploaded" ELSE "failed"
  /\ UNCHANGED <<total_bytes, consumed_bytes, tk_now, tk_calls, last_progress,
                 last_update_time, last_bytes, tk_events, batch_vars, lane_vars,
                 split_vars, dir_vars, up_vars, fp_vars, st_vars>>

NextTransfer ==
  \/ \E consumed \in 0..MaxBytes, dt \in 0..update_interval :
       TrackProgress(consumed, dt)
  \/ \E ok \in BOOLEAN : TransferEnd(ok)

\* upload_file sends one file with a progress callback; the tracker is new
InitTransfer ==
  /\ file_urls = <<>>
  /\ max_wait_time = BatchMaxWait
  /\ wait_interval = BatchInterval
  /\ max_retries = DEFAULT_MAX_RETRIES
  /\ InitWorker
  /\ InitLane
  /\ InitNoAsset
  /\ InitNoDir
  /\ InitNoUpload
  /\ InitNoProgress
  /\ InitNoTask
  /\ tk_pc = "transfer"
  /\ total_bytes \in 0..MaxBytes
  /\ InitTracker

SpecTransfer == InitTransfer /\ [][NextTransfer]_vars

(* ====================================================================== *)
(* Properties                                                             *)
(* ====================================================================== *)
NonDecreasing(q) == \A a, b \in 1..Len(q) : a <= b => q[a] <= q[b]
Statuses == {files[k].status : k \in 1..Len(files)}
Returned == pc \in {"returned", "done"}

\* C1: an exception raised while an item is processed (in transcribe_audio or
\* while its transcript is persisted) is caught: the item is recorded with
\* status 'error' and an error message, the batch goes on with the next item
\* (or the summary), and no such exception leaves batch_transcribe, so every
\* item of the list has its result when the batch returns.
C1_ExceptionContained ==
  /\ item_outcome \in {"raised", "save_raised"} =>
       /\ pc \in {"item", "summary"}
       /\ i >= 1 /\ Len(files) = i
       /\ files[i].status = "error"
       /\ files[i].error_message
  /\ pc \in {"raised", "done_raised"} => i = 0 /\ files = <<>>
  /\ (Returned /\ total_files > 0) => Len(files) = total_files

\* three items, only the second raises: one 'error', items 1 and 3 processed
C1_Witness ==
  /\ pc = "returned"
  /\ total_files = 3 /\ Len(files) = 3
  /\ files[1].status = "success" /\ files[1].json # None
  /\ files[2].status = "error" /\ files[2].error_message
  /\ files[3].status = "success" /\ files[3].json # None

\* C2: once cancel() has been called, the batch starts no new item and a
\* running poll loop makes no further query.
C2_CancelObserved ==
  [][cancelled => /\ ~(pc = "item" /\ pc' = "submit")
                  /\ query_calls' <= query_calls]_vars

C4_AtMostOneWorker ==
  Cardinality({w \in 1..NumWorkers : Executing(w)}) <= 1

C6_FilesComplete ==
  (Returned /\ total_files > 0) =>
     /\ Len(files) = total_files
     /\ \A k \in 1..Len(files) :
          /\ files[k].url = file_urls[k]
          /\ files[k].name = basename(file_urls[k])
          /\ files[k].status \in {"success", "failed", "error"}

\* three items with different URLs and all three kinds of outcome
C6_Witness ==
  /\ pc = "returned"
  /\ total_files = 3
  /\ file_urls[1] # file_urls[2]
  /\ Statuses = {"success", "failed", "error"}

\* C7: the summary step runs once, after the last result has been appended; it
\* changes no item result; when it raises, summary_error is set and the batch
\* still returns normally.
C7_SummaryOnce ==
  [][/\ summary_runs' \in {summary_runs, summary_runs + 1}
     /\ summary_runs' <= 1
     /\ summary_runs' # summary_runs =>
          /\ total_files > 0 /\ Len(files) = total_files
          /\ files' = files
          /\ pc' = "returned"
     /\ (pc # "returned" /\ pc' = "returned" /\ total_files > 0) =>
          summary_runs' = summary_runs + 1
     /\ summary_error' # None => pc' \in {"returned", "done"}
     /\ pc' \in {"raised", "done_raised"} => summary_runs' = 0]_vars

\* the summary failed after a successful item; the batch returned
C7_Witness ==
  /\ pc = "returned"
  /\ summary_error # None
  /\ summary_runs = 1
  /\ \E k \in 1..Len(files) : files[k].status = "success" /\ files[k].text # None

\* C8: when submit_task fails k times and then succeeds (k < max_retries),
\* the submission succeeds, submit_task has been called k+1 times and never
\* after its success, and k backoff delays were slept, in non-decreasing order.
C8_RetryThenSuccess ==
  task_id =>
    LET k == Cardinality({a \in 1..Len(submit_log) : submit_log[a] = "fail"})
    IN /\ k < max_retries
       /\ Len(submit_log) = k + 1
       /\ submit_log[k + 1] = "ok"
       /\ Len(sleeps) = k
       /\ NonDecreasing(sleeps)
       /\ pc # "submit"

\* two failures, then success
C8_Witness ==
  /\ task_id
  /\ submit_log = <<"fail", "fail", "ok">>
  /\ Len(sleeps) = 2

\* C9: when every submit_task call fails, transcribe_audio calls it
\* max_retries times, returns None (the item is 'failed') and makes no query.
C9_SubmitExhausted ==
  /\ (\A a \in 1..Len(submit_log) : submit_log[a] = "fail") =>
        /\ Len(submit_log) <= max_retries
        /\ query_calls = 0
        /\ item_outcome \in {"none", "submit_exhausted"}
  /\ item_outcome = "submit_exhausted" =>
        /\ Len(submit_log) = max_retries
        /\ \A a \in 1..Len(submit_log) : submit_log[a] = "fail"
        /\ query_calls = 0
        /\ ~task_id
        /\ files[i].status = "failed" /\ files[i].json = None

\* three failed submissions
C9_Witness ==
  /\ item_outcome = "submit_exhausted"
  /\ max_retries = 3
  /\ Len(submit_log) = 3

\* C10: when every query reports in-progress, transcribe_audio ends with the
\* timeout failure, at an elapsed time of at least max_wait_time and at most
\* max_wait_time + wait_interval, and polls at no later time.
C10_Timeout ==
  (task_id /\ only_inprogress) =>
     /\ elapsed <= max_wait_time + wait_interval
     /\ item_outcome \in {"none", "timeout"}
     /\ item_outcome = "timeout" =>
          /\ elapsed >= max_wait_time
          /\ files[i].status = "failed"
     /\ (pc = "poll" /\ elapsed >= max_wait_time) => item_outcome = "none"

\* a timeout after several in-progress answers, max_wait_time not a multiple
\* of wait_interval
C10_Witness ==
  /\ item_outcome = "timeout"
  /\ task_id /\ only_inprogress
  /\ query_calls >= 2
  /\ elapsed > max_wait_time

\* C11: when polling ticks raise on consecutive ticks, transcribe_audio ends
\* with the error-exhausted failure at the tick where the number of
\* consecutive raising ticks reaches max_query_retries, wherever in the tick
\* the exception is raised, and runs no further tick.
C11_ErrorsExhaust ==
  /\ exc_run <= max_query_retries
  /\ exc_run >= max_query_retries => item_outcome = "poll_errors"

\* C12: a query that returns a status code other than complete or in-progress
\* ends the item in the same step with the failure result, without an interval
\* sleep, and no query or sleep follows for that item.
C12_TerminalStops ==
  [][/\ (query_calls' = query_calls + 1 /\ last_query' = "failed") =>
          /\ item_outcome' = "terminal"
          /\ pc' \in {"item", "summary"}
          /\ Len(files') = Len(files) + 1
          /\ files'[Len(files')].status = "failed"
          /\ elapsed' = elapsed
     /\ (last_query = "failed" /\ last_query' = "failed") =>
          /\ query_calls' = query_calls
          /\ elapsed' = elapsed]_vars

\* the second query of an item met a failure code; the batch is at the next item
C12_Witness ==
  /\ last_query = "failed"
  /\ item_outcome = "terminal"
  /\ query_calls = 2
  /\ pc = "item"
  /\ files[i].status = "failed"

\* C13: a query that returns the complete status ends polling and
\* transcribe_audio returns the payload as its success result, for every
\* payload (the empty one included).
C13_CompleteSucceeds ==
  last_query \in Payloads =>
     /\ item_outcome \in {"success", "save_raised"}
     /\ result = last_query

\* C14: no query is made before a submission of the item succeeded, a
\* transcript is persisted only after a query of the item returned complete,
\* and an item whose submission never succeeds has no query and no output.
C14_TwoPhase ==
  /\ query_calls > 0 =>
       /\ task_id
       /\ submit_log # <<>> /\ submit_log[Len(submit_log)] = "ok"
  /\ pc = "save" => task_id /\ last_query \in Payloads
  /\ (item_outcome # "none" /\ pc # "save") =>
       /\ (files[i].json # None \/ files[i].text # None) =>
             task_id /\ last_query \in Payloads
       /\ ~task_id =>
             /\ query_calls = 0
             /\ files[i].json = None /\ files[i].text = None
             /\ disk[files[i].name] # i
  /\ ~task_id => query_calls = 0 /\ pc # "save"

\* an item persisted after one failed submission and two queries
C14_Witness ==
  /\ item_outcome = "success"
  /\ pc \in {"item", "summary"}
  /\ files[i].json # None /\ files[i].text # None
  /\ submit_log = <<"fail", "ok">>
  /\ query_calls = 2
  /\ disk[files[i].name] = i

\* C20: a first query that fails with a network timeout or connection error
\* (one failure, fewer than max_query_retries in a row) does not end polling:
\* the consecutive-error counter is incremented and the loop sleeps the
\* interval and goes on.
C20_TransientRetried ==
  [][(query_calls = 0 /\ query_calls' = 1 /\ last_query' = "neterr") =>
        /\ pc' = "poll"
        /\ query_retry_count' = query_retry_count + 1
        /\ elapsed' = elapsed + wait_interval]_vars

\* C19: the summary written by a batch has one section per processed item, in
\* input order, with the item's name and either the item's own transcript
\* text (status 'success' and a text output) or the failure marker (every
\* other case).
C19_SummarySections ==
  (summary_runs = 1 /\ summary_file # None) =>
     /\ Len(summary_sections) = Len(files)
     /\ \A k \in 1..Len(summary_sections) :
          /\ summary_sections[k].name = files[k].name
          /\ summary_sections[k].body =
               IF files[k].status = "success" /\ files[k].text # None
                 THEN [kind |-> "text", of |-> k]
                 ELSE [kind |-> "marker", of |-> 0]

\* C17: cancel() only sets the cancelled flag. It changes nothing else of the
\* running task, every next call of the pipeline (start of the next item,
\* submit, poll, persist, summary) stays possible after it, and a batch
\* cancelled while it ran still returns with every item processed.
C17_CancelOnlySetsFlag ==
  /\ [][cancelled' # cancelled =>
          /\ cancelled'
          /\ UNCHANGED <<pc, file_urls, max_wait_time, wait_interval, max_retries,
                         i, files, summary_file, summary_error, ret, retry_count,
                         task_id, elapsed, query_retry_count, query_count, result,
                         finished, emitted, submit_log, sleeps, query_calls,
                         last_query, disk, summary_sections, summary_runs>>]_vars
  /\ [](cancelled =>
          /\ (pc = "item" /\ i < total_files) => ENABLED ItemStart
          /\ (pc = "submit" /\ submit_loop_continues(retry_count, max_retries, task_id)) =>
                ENABLED SubmitAttempt("ok")
          /\ (pc = "poll" /\ poll_loop_continues(elapsed, max_wait_time, wait_interval)) =>
                ENABLED PollTick("full")
          /\ pc = "save" => ENABLED SaveTranscript("ok")
          /\ pc = "summary" => ENABLED GenerateSummary("ok", 0)
          /\ (Returned /\ cancel_pc = "in_task" /\ total_files > 0) =>
                Len(files) = total_files /\ summary_runs = 1)

\* a batch of two items cancelled while it ran has processed both
C17_Witness ==
  /\ pc = "returned"
  /\ cancelled /\ cancel_pc = "in_task"
  /\ total_files = 2 /\ Len(files) = 2
  /\ files[1].status = "failed"
  /\ files[2].status = "success" /\ files[2].json # None

\* C18: an empty work list is rejected before any background task starts: a
\* start action of the transcription or upload lane on an empty list creates
\* and starts no worker (every worker that exists was given a non-empty
\* list), and batch_transcribe called on an empty list returns an error result
\* without an item processed, a submission, a query or a progress event.
C18_EmptyRejected ==
  /\ (worker = 0) = (\A w \in 1..NumWorkers : threads[w].st = "unborn")
  /\ worker # 0 => worker_items > 0
  /\ start_result = "started" => worker # 0
  /\ total_files = 0 =>
       /\ pc \in {"begin", "returned"}
       /\ pc # "begin" => ret = [status |-> "error"]
       /\ i = 0 /\ files = <<>> /\ emitted = <<>>
       /\ submit_log = <<>> /\ query_calls = 0 /\ summary_runs = 0

\* a start on an empty list was rejected with no worker created, and
\* batch_transcribe has returned its error result for the empty list
C18_Witness ==
  /\ start_result = "rejected"
  /\ tab_list = 0
  /\ worker = 0
  /\ \A w \in 1..NumWorkers : threads[w].st = "unborn"
  /\ total_files = 0 /\ pc = "returned"
  /\ ret = [status |-> "error"]

\* the windows split_audio plans to cut, in order
SegmentPlan ==
  [k \in 1..segment_count |->
     cut_window(segment_start(k - 1, segment_duration), segment_duration,
                asset_duration)]

\* C15: for duration > 0 and segment_duration > 0 the plan has
\* ceil(duration / segment_duration) segments, segment i (0-indexed) starts at
\* i * segment_duration, and the segments are non-empty, contiguous and cover
\* exactly [0, duration); an asset not longer than a segment is one segment
\* [0, duration); every file cut holds the window of its place in the plan.
C15_SegmentPlan ==
  /\ split_how = "plan" =>
       /\ segment_count * segment_duration >= asset_duration
       /\ (segment_count - 1) * segment_duration < asset_duration
       /\ SegmentPlan[1].start = 0
       /\ SegmentPlan[segment_count].end = asset_duration
       /\ \A k \in 1..segment_count :
            /\ SegmentPlan[k].start = (k - 1) * segment_duration
            /\ SegmentPlan[k].start < SegmentPlan[k].end
            /\ k < segment_count => SegmentPlan[k].end = SegmentPlan[k + 1].start
       /\ \A k \in 1..Len(segments) :
            /\ segments[k].start = SegmentPlan[segments[k].file].start
            /\ segments[k].end = SegmentPlan[segments[k].file].end
  /\ split_how = "short" =>
       /\ segment_duration >= asset_duration
       /\ segments = <<[file |-> 0, start |-> 0, end |-> asset_duration]>>

\* an asset of length 5 cut in segments of 2: [0,2), [2,4), [4,5)
C15_Witness ==
  /\ sp_pc = "info"
  /\ split_how = "plan"
  /\ asset_duration = 5 /\ segment_duration = 2
  /\ segment_count = 3
  /\ Len(segments) = 3
  /\ segments[3].start = 4 /\ segments[3].end = 5

\* C16: when segment_duration is 0 or the asset is not longer than a segment,
\* there is exactly one segment and the span recorded for it in segment_info
\* is the whole asset [0, duration).
C16_SingleFullSpan ==
  (/\ sp_pc = "done"
   /\ split_how \in {"no_split", "short"}
   /\ video_duration = asset_duration) =>
     /\ Len(segment_info) = 1
     /\ segment_info[1].start_time = 0
     /\ segment_info[1].end_time = asset_duration

\* C21: in the polling loop the consecutive-error counter is incremented by
\* one on each failing tick and reset only by a classified query result, so it
\* equals the number of failing ticks since the last tick that did not fail.
C21_CounterCountsFailures ==
  pc = "poll" => query_retry_count = exc_run

\* C22: the delay slept before the n-th retry of the submission is 2^n seconds,
\* the first attempt runs with no delay before it, and a retry notification is
\* emitted before each retry attempt and never before the first attempt.
C22_BackoffDelays ==
  /\ [][Len(submit_log') = Len(submit_log) + 1 =>
          LET n == Len(submit_log)
          IN IF n = 0
               THEN /\ sleeps = <<>> /\ sleeps' = <<>>
                    /\ emitted' \in {emitted, <<FileEv(i, 5)>>}
               ELSE /\ sleeps' = Append(sleeps, 2 ^ n)
                    /\ emitted'[1] = FileEv(i, 0)]_vars
  /\ [](\A n \in 1..Len(sleeps) : sleeps[n] = 2 ^ n)

\* three failed attempts: the retries waited 2 and 4 seconds
C22_Witness ==
  /\ pc = "submit"
  /\ submit_log = <<"fail", "fail", "fail">>
  /\ sleeps = <<2, 4>>
  /\ emitted = <<FileEv(0, 0)>>

\* C23: an item ends 'failed' exactly when its pipeline returned a non-success
\* result without raising and 'error' exactly when an exception was caught
\* while processing it; error_message is present iff the status is 'error';
\* in both cases the batch goes on with the next item or the summary.
C23_FailedVsError ==
  /\ [][Len(files') = Len(files) + 1 =>
          LET fr == files'[Len(files')]
          IN /\ fr.status = "failed" <=>
                  item_outcome' \in {"submit_exhausted", "terminal", "timeout",
                                     "poll_errors"}
             /\ fr.status = "error" <=> item_outcome' \in {"raised", "save_raised"}
             /\ fr.status = "success" <=> item_outcome' = "success"
             /\ i' = i + 1
             /\ pc' = IF i' < total_files THEN "item" ELSE "summary"]_vars
  /\ [](\A k \in 1..Len(files) :
          files[k].error_message <=> files[k].status = "error")

\* a failed item, then an item whose processing raised, then the third item
C23_Witness ==
  /\ total_files = 3
  /\ Len(files) = 2
  /\ files[1].status = "failed" /\ ~files[1].error_message
  /\ files[2].status = "error" /\ files[2].error_message
  /\ pc = "submit"

\* C25: for max_wait_time >= wait_interval every progress value of a polling
\* tick lies in 5..95, and the value 100 is emitted only by a step that ends
\* the polling.
C25_PollProgressRange ==
  /\ [][(query_count' = query_count + 1 /\ max_wait_time >= wait_interval) =>
          /\ emitted' # <<>>
          /\ emitted'[1].item = i
          /\ emitted'[1].local \in 5..95
          /\ (\E e \in 1..Len(emitted') : emitted'[e].local = 100) => pc' # "poll"]_vars
  /\ [](pc = "poll" => \A e \in 1..Len(emitted) : emitted[e].local # 100)

\* the second tick of a poll whose expected number of queries is 1
C25_Witness ==
  /\ pc = "poll"
  /\ query_count = 2
  /\ max_wait_time = 3 /\ wait_interval = 2
  /\ emitted = <<FileEv(0, 95)>>

\* C26: every segment_info entry describes the window cut for its segment
\* file: the entry of file _segment_{k} has index k, start_time
\* (k-1)*segment_duration and end_time min(k*segment_duration, duration),
\* whichever cuts succeeded.
C26_InfoMatchesCut ==
  (/\ sp_pc = "done"
   /\ split_how = "plan"
   /\ video_duration = asset_duration) =>
     /\ Len(segment_info) = Len(segments)
     /\ \A k \in 1..Len(segment_info) :
          /\ segment_info[k].file = segments[k].file
          /\ segment_info[k].index = segments[k].file
          /\ segment_info[k].start_time = segments[k].start
          /\ segment_info[k].end_time = segments[k].end

\* C27: two different successfully processed items of one batch never get the
\* same output file path.
C27_DistinctOutputs ==
  \A a, b \in 1..Len(files) :
    (a < b /\ files[a].status = "success" /\ files[b].status = "success") =>
      files[a].json # files[b].json

\* C30: an exception raised before the per-item loop leaves batch_transcribe:
\* no item is processed, no result is returned, and the worker emits one
\* completion event with success = false.
C30_OuterExceptionPropagates ==
  /\ pc \in {"raised", "done_raised"} =>
       /\ i = 0 /\ files = <<>>
       /\ submit_log = <<>> /\ query_calls = 0
       /\ summary_runs = 0
       /\ item_outcome = "none"
  /\ pc = "raised" => finished = <<>>
  /\ pc = "done_raised" => finished = <<FALSE>>

\* the output directory of a two-file batch could not be created
C30_Witness ==
  /\ pc = "done_raised"
  /\ finished = <<FALSE>>
  /\ total_files = 2
  /\ files = <<>>
  /\ ~cancelled

\* C29: in batch_upload a file whose upload fails is mapped to None and the
\* files after it are still uploaded; the mapping returned has an entry (URL
\* or None) for every input path, and the last progress event is 100.
C29_UploadContained ==
  /\ [][up_i' = up_i + 1 =>
          LET path == file_paths[up_i']
          IN /\ path \notin DOMAIN up_results
             /\ DOMAIN up_results' = DOMAIN up_results \cup {path}
             /\ \A q \in DOMAIN up_results : up_results'[q] = up_results[q]
             /\ up_results'[path] \in {"url", None}
             /\ up_pc' = "file"
             /\ ENABLED (UploadEnd \/ \E o \in UploadOutcomes : UploadFile(o))]_vars
  /\ [](/\ up_pc \in {"file", "returned"}
        /\ DOMAIN up_results = {file_paths[k] : k \in 1..up_i}
        /\ up_pc = "returned" =>
             /\ up_i = Len(file_paths)
             /\ up_emitted = <<100>>)

\* the first of three uploads failed, the other two were made
C29_Witness ==
  /\ up_pc = "returned"
  /\ file_paths = <<"p1", "p2", "p3">>
  /\ up_results["p1"] = None
  /\ up_results["p2"] = "url"
  /\ up_results["p3"] = "url"
  /\ up_emitted = <<100>>

\* C28: in process_directory a failure while processing a video, an
\* exception raised inside process_video included, is contained to that
\* video: a result is recorded for it, the later videos are processed and the
\* summary is written.
C28_VideoContained ==
  /\ [][(dir_pc = "in_video" /\ dir_pc' # "in_video") =>
          /\ Len(dir_results') = Len(dir_results) + 1
          /\ vid_i' = vid_i + 1
          /\ dir_pc' = IF vid_i' < total_videos THEN "video" ELSE "summary"]_vars
  /\ []((dir_pc \in {"summary", "returned"} /\ total_videos > 0) =>
          Len(dir_results) = total_videos)

\* C24: the progress published while item i of n is at item-local percent p
\* equals floor(i*100/n + p/n); it lies between floor(100*i/n) and
\* floor(100*(i+1)/n) and is an integer in 0..100.
C24_OverallProgress ==
  fp_out # -1 =>
    /\ fp_out = ((100 * fp_i) + fp_p) \div fp_n
    /\ (100 * fp_i) \div fp_n <= fp_out
    /\ fp_out <= (100 * (fp_i + 1)) \div fp_n
    /\ fp_out \in 0..100

\* the item-local percents of a sequence of events
Locals(evs) == [k \in 1..Len(evs) |-> evs[k].local]

\* the overall percents of a sequence of events
Overalls(evs) == [k \in 1..Len(evs) |-> evs[k].overall]

\* transcribe_audio returns in this step (it does not raise)
TranscribeReturns ==
  /\ pc \in {"submit", "poll"}
  /\ pc' \notin {"submit", "poll"}
  /\ item_outcome' \in {"success", "submit_exhausted", "terminal", "timeout",
                        "poll_errors"}

\* C34: within one call of transcribe_audio the progress values emitted are
\* non-decreasing, and on every return path the last value emitted is 100.
C34_ItemProgress ==
  [][(pc \in {"submit", "poll"}) =>
       /\ emitted' # emitted => NonDecreasing(Locals(emitted) \o Locals(emitted'))
       /\ TranscribeReturns =>
            /\ emitted' # <<>>
            /\ emitted'[Len(emitted')] = FileEv(i, 100)]_vars

\* the polling of a call timed out after two in-progress ticks: 100 was emitted
C34_Witness ==
  /\ item_outcome = "timeout"
  /\ query_calls = 2 /\ only_inprogress
  /\ Len(submit_log) = 2
  /\ emitted = <<FileEv(0, 100)>>

\* C35: the overall progress values published by batch_transcribe are
\* non-decreasing over the whole batch, whatever the item outcomes, and the
\* last value published for a non-empty list is 100.
C35_BatchProgress ==
  /\ [][emitted' # emitted => NonDecreasing(Overalls(emitted) \o Overalls(emitted'))]_vars
  /\ []((Returned /\ total_files > 0) =>
          /\ emitted # <<>>
          /\ emitted[Len(emitted)].overall = 100)
  /\ [](\A k \in 1..Len(emitted) : emitted[k].overall \in 0..100)

\* a three-item batch returned after a failed, a raising and a successful item
C35_Witness ==
  /\ pc = "returned"
  /\ total_files = 3
  /\ files[1].status = "failed"
  /\ files[2].status = "error"
  /\ files[3].status = "success"
  /\ emitted = <<FinalEv>>

\* C36: a WorkerThread emits task_finished at most once per run;
\* (True, result) only if the cancelled flag was false when run() read it
\* after the task function returned; a task function that raises always gives
\* (False, message), even when the worker was cancelled.
C36_FinishedEvent ==
  /\ [][/\ Len(finished') <= 1
        /\ finished' # finished =>
             /\ finished = <<>>
             /\ pc \in {"returned", "raised"}
             /\ finished' = <<TRUE>> => (pc = "returned" /\ ~cancelled)
             /\ finished' = <<FALSE>> => pc = "raised"
        /\ (pc = "raised" /\ pc' = "done_raised") => finished' = <<FALSE>>]_vars
  /\ []((pc = "done" /\ finished = <<TRUE>>) => cancel_pc \in {"none", "after_run"})

\* a worker cancelled while its task ran, the task raising afterwards
C36_Witness ==
  /\ pc = "done_raised"
  /\ cancelled /\ cancel_pc = "in_task"
  /\ finished = <<FALSE>>

\* ceil(a / b)
CeilDiv(a, b) == (a + b - 1) \div b

\* C37: transcribe_audio makes at most max_retries submissions and at most
\* ceil(max_wait_time / wait_interval) queries per item, and batch_transcribe
\* terminates for every work list when every call returns.
C37_Terminates ==
  /\ [](/\ Len(submit_log) <= max_retries
        /\ query_calls <= CeilDiv(max_wait_time, wait_interval)
        /\ query_count <= CeilDiv(max_wait_time, wait_interval))
  /\ <>(pc \in {"done", "done_raised"})

\* a batch on a longest work list ran to the end of run(), an item having failed
C37_Witness ==
  /\ pc = "done"
  /\ total_files = MaxFiles
  /\ Len(files) = total_files
  /\ \E k \in 1..Len(files) : files[k].status = "failed"

\* C38: every item recorded with status 'success' has a JSON output path;
\* when persisting the transcript raises after the remote job completed, the
\* item ends with status 'error', never 'success'.
C38_SuccessHasJson ==
  /\ [](\A k \in 1..Len(files) : files[k].status = "success" => files[k].json # None)
  /\ [][(pc = "save" /\ item_outcome' = "save_raised") =>
          /\ Len(files') = Len(files) + 1
          /\ files'[Len(files')].status = "error"
          /\ files'[Len(files')].json = None
          /\ files'[Len(files')].error_message]_vars

\* the job of the first item completed and writing its JSON file raised
C38_Witness ==
  /\ item_outcome = "save_raised"
  /\ result = "full"
  /\ Len(files) = 1
  /\ files[1].status = "error"
  /\ files[1].json = None

\* C39: when batch_transcribe returns for a non-empty list, exactly one of the
\* keys 'summary_file' and 'summary_error' is present in the result, and
\* 'summary_file' is present exactly when summary generation did not raise.
C39_ExactlyOneSummaryKey ==
  (Returned /\ total_files > 0) =>
    /\ (summary_file # None) # (summary_error # None)
    /\ (summary_file # None) <=> (summary_error = None)

\* C40: for a non-empty work list the top-level status of the returned result
\* is 'success' whatever the item outcomes and the outcome of the summary; the
\* top-level status 'error' is returned only for an empty work list.
C40_TopLevelStatus ==
  /\ Returned => ret.status \in {"success", "error"}
  /\ (Returned /\ total_files > 0) => ret.status = "success"
  /\ ret.status = "error" => Returned /\ total_files = 0 /\ files = <<>>

\* every item of a longest list failed and the summary could not be written
C40_Witness ==
  /\ pc = "returned"
  /\ total_files = MaxFiles
  /\ Statuses \subseteq {"failed", "error"}
  /\ Len(files) = total_files
  /\ summary_error # None
  /\ summary_file = None
  /\ ret.status = "success"

\* C32: in the extraction flow an asset whose duration probe returns a value
\* <= 0 is skipped: no audio is extracted from it (process_video never reaches
\* split_audio) and no segments are produced for it.
C32_ProbeFailureSkips ==
  /\ [][(sp_pc = "extract" /\ video_duration <= 0) => sp_pc' = "done"]_vars
  /\ []((sp_pc \notin {"idle", "begin"} /\ video_duration <= 0) =>
          /\ sp_pc \in {"extract", "done"}
          /\ segments = <<>>
          /\ segment_info = <<>>)

\* C31: in the splitting flow, when the duration probe returns a value <= 0
\* the task aborts: split_audio is never entered, so no segment is cut, and
\* the completion event of the worker reports failure.
C31_ProbeFailureAborts ==
  /\ [][(st_pc = "begin" /\ st_pc' # "begin" /\ st_duration' <= 0) =>
          st_pc' = "raised" /\ UNCHANGED split_vars]_vars
  /\ []((st_pc \notin {"idle", "begin"} /\ st_duration <= 0) =>
          /\ st_pc \in {"raised", "done"}
          /\ sp_pc = "idle"
          /\ split_how = "none"
          /\ segments = <<>>
          /\ (st_pc = "done" => st_finished = <<FALSE>>))

\* the probe failed on a task that was cancelled meanwhile; the worker has
\* reported the failure
C31_Witness ==
  /\ st_pc = "done"
  /\ st_duration = 0
  /\ st_cancelled
  /\ st_finished = <<FALSE>>
  /\ segments = <<>>

\* C33: during one file upload two successive progress events are at least
\* one update interval (2 seconds) apart, unless the later one reports the
\* completion of the transfer (100%).
C33_Throttled ==
  \A k \in 2..Len(tk_events) :
    \/ tk_events[k].progress = 100
    \/ tk_events[k].time - tk_events[k - 1].time >= update_interval

====
